---- MODULE Spec2Model ----
(***************************************************************************)
(* The retrieval pipeline of intelligent-graph-agent-ts as state machines: *)
(*   - EnhancedTextChunker        (enhanced-text-chunker.ts)               *)
(*   - GraphService / BaseGraphService writes to the graph store           *)
(*   - EmbeddingManager and GeminiEmbeddingModel (cache, retry, batch)     *)
(*   - UnifiedSearch.optimizeResults (normalise, sort, dedupe, filter)     *)
(* Each component has its own specification over the shared variables; the *)
(* variables of the other components keep their initial values.            *)
(*                                                                         *)
(* Text.  A JavaScript string is a sequence of characters.  A character of *)
(* a text handled by the chunker is the pair <<c, i>>: c is the character  *)
(* and i its 1-based offset in the document handed to chunkText (0 for a   *)
(* character the chunker inserts itself).  No operator of the chunker      *)
(* reads i; it is carried along so that properties about what happens to   *)
(* the characters of the document can be stated on the produced chunks.    *)
(* Positions (startPos, endPos, ...) are 0-based as in the source.         *)
(***************************************************************************)
EXTENDS Integers, Sequences, FiniteSets, TLC

VARIABLES
    \* ---- EnhancedTextChunker
    text,          \* the argument of chunkText
    options,       \* this.options of the chunker
    cpc,           \* position in chunkText: "start", "segment", "loop", "done"
    textSegments,  \* chunkText: textSegments
    segIdx,        \* chunkText: index of the segment being processed (1-based)
    startPos,      \* chunkSingleSegment: startPos
    chunks,        \* chunkSingleSegment: chunks
    allChunks,     \* chunkText: allChunks (the returned value once cpc = "done")
    stalls,        \* consecutive loop iterations that left startPos where it was
    \* ---- GraphService (BaseGraphService) and the graph store
    graph,         \* the store: Document and Chunk nodes, PART_OF, FIRST_CHUNK, NEXT_CHUNK
    batchSize,     \* this.batchSize
    maxWorkers,    \* this.maxWorkers
    documents,     \* the argument of the current (or last) processDocuments call
    batchStart,    \* processDocumentsInBatches: i (0-based index of the batch's first document)
    ipc,           \* position in processDocuments: "idle", "batch", "returned", "threw"
    dpc,           \* per document of the call: position in processDocument
    ingestions,    \* processDocuments calls made so far
    lastWrite,     \* <<>> or <<w>>: the last processDocument that ran alone, with
                   \* the store it left and the store its predecessor had left
    \* ---- UnifiedSearch.search
    query,         \* the SearchQuery argument
    searchOptions, \* the UnifiedSearchOptions argument
    strategy,      \* search: strategy (resolved)
    spc,           \* position in search: "idle", "vector", "fallback", "text", "optimize", "returned" ("raised": the call threw)
    results,       \* search: results
    returned,      \* the value search returned
    branches,      \* how each awaited search of the call ended: "none", "resolved", "failed"
    \* ---- VectorSearchService over the chunks of the store
    store,           \* the chunks of a document in the store and their similarity to the query
    xpc,             \* position in search / searchWithContext: "idle", "expand", "done"
    initialResults,  \* searchWithContext: results (rows of searchSimilarVectors)
    hitIdx,          \* searchWithContext: index of the result the loop is at (1-based)
    expandedResults, \* searchWithContext: expandedResults
    expansionFailed, \* a getAdjacentChunks of the call caught an error
    \* ---- EmbeddingManager and GeminiEmbeddingModel
    cache,         \* EmbeddingManager.cache: key -> [embedding, timestamp, ttl]
    now,           \* Date.now()
    embedConfig,   \* EmbeddingManager.config: retryAttempts (0: none given), apiKey set
    eop,           \* the current (or last) call: "none", "embedQuery", "embedDocuments"
    etexts,        \* its texts (embedQuery: one text)
    epc,           \* its position: "idle", "request", "delay", "done", "failed"
    attempt,       \* embedWithRetry: attempt
    apiAttempt,    \* callGeminiEmbeddingAPI: attempt
    eresults,      \* the vectors of the call (embedDocuments: results)
    uncachedTexts,   \* embedDocuments: uncachedTexts
    uncachedIndices, \* embedDocuments: uncachedIndices
    elog,          \* what the call did: provider calls, requests, cache writes, ...
    ecalls,        \* embedQuery / embedDocuments calls made so far
    clears,        \* clearCache calls made so far
    \* ---- DocumentProcessor.createChunks
    textChunks,    \* createChunks: textChunks (what chunkText returned)
    chunkIndex,    \* createChunks: chunkIndex (0-based)
    ppc,           \* position in createChunks: "idle", "embedding", "done"
    createdChunks, \* createChunks: chunks (the returned value once ppc = "done")
    embedOutcomes, \* per text chunk, how its embedQuery ended: "none", "skipped",
                   \* "vector", "empty", "failed"
    \* ---- UnifiedSearch.performTextSearch
    textStore,     \* the Chunk nodes of the store the lexical query runs on
    textQuery,     \* performTextSearch: query (query.query, query.limit)
    tpc,           \* position in performTextSearch: "idle", "query", "returned", "threw"
    textResults,   \* what performTextSearch returned
    \* ---- VectorSearchService.search
    vquery,        \* search: query
    vpc,           \* position in search: "idle", "embed", "similar", "returned", "threw"
    queryVector,   \* search: queryVector
    modelAnswers,  \* per query text, the embeddings the provider has computed for search
    vsearches      \* search calls made so far

chunkerVars == <<text, options, cpc, textSegments, segIdx, startPos, chunks, allChunks, stalls>>
graphVars == <<graph, batchSize, maxWorkers, documents, batchStart, ipc, dpc, ingestions, lastWrite>>
searchVars == <<query, searchOptions, strategy, spc, results, returned, branches>>
contextVars == <<store, xpc, initialResults, hitIdx, expandedResults, expansionFailed>>
embedVars == <<cache, now, embedConfig, eop, etexts, epc, attempt, apiAttempt, eresults, uncachedTexts, uncachedIndices, elog, ecalls, clears>>

processorVars == <<textChunks, chunkIndex, ppc, createdChunks, embedOutcomes>>

lexicalVars == <<textStore, textQuery, tpc, textResults>>

vectorVars == <<vquery, vpc, queryVector, modelAnswers, vsearches>>

vars == <<chunkerVars, graphVars, searchVars, contextVars, embedVars, processorVars, lexicalVars, vectorVars>>

\* what a step of one component leaves alone
notChunkerVars == <<graphVars, searchVars, contextVars, embedVars, processorVars, lexicalVars, vectorVars>>
notGraphVars == <<chunkerVars, searchVars, contextVars, embedVars, processorVars, lexicalVars, vectorVars>>
notSearchVars == <<chunkerVars, graphVars, contextVars, embedVars, processorVars, lexicalVars, vectorVars>>
notEmbedVars == <<chunkerVars, graphVars, searchVars, contextVars, processorVars, lexicalVars, vectorVars>>
notProcessorVars == <<chunkerVars, graphVars, searchVars, contextVars, embedVars, lexicalVars, vectorVars>>
notLexicalVars == <<chunkerVars, graphVars, searchVars, contextVars, embedVars, processorVars, vectorVars>>
notVectorVars == <<chunkerVars, graphVars, searchVars, contextVars, embedVars, processorVars, lexicalVars>>
notContextVars == <<chunkerVars, graphVars, embedVars, processorVars, lexicalVars, vectorVars>>

Min(a, b) == IF a <= b THEN a ELSE b
Max(a, b) == IF a >= b THEN a ELSE b

(***************************************************************************)
(* Bounds of the chunker model.                                            *)
(***************************************************************************)
MaxTextLen == 4      \* longest enumerated document
MaxChunks == 7       \* the sliding-window loop is followed up to this many chunks

Alphabet == {"a", "b", " ", ".", "\n"}

RECURSIVE SeqsUpTo(_, _)
SeqsUpTo(S, n) ==
    IF n = 0 THEN {<<>>}
    ELSE LET shorter == SeqsUpTo(S, n - 1)
         IN  shorter \cup {Append(s, c) : s \in {t \in shorter : Len(t) = n - 1}, c \in S}

\* a document with five paragraphs, so that the paragraph pre-split is taken
FiveParagraphs ==
    <<"a", "\n", "\n", "b", "\n", "\n", "a", "\n", "\n", "b", "\n", "\n", "a", ".">>

Texts == SeqsUpTo(Alphabet, MaxTextLen) \cup {FiveParagraphs}

\* the document-processing configuration (environment CHUNK_SIZE,
\* CHUNK_OVERLAP, MAX_TEXT_LENGTH, PRESERVE_SENTENCES, MULTILINGUAL_SUPPORT)
DocumentConfigs ==
    [chunkSize : {2, 3}, overlap : {0, 1, 2}, maxTextLength : {3, 1000000},
     preserveSentences : BOOLEAN, multilingualSupport : {FALSE}]

(***************************************************************************)
(* Characters and strings.                                                 *)
(***************************************************************************)
Ch(e) == e[1]
Src(e) == e[2]
Tag(s) == [i \in 1..Len(s) |-> <<s[i], i>>]
Plain(s) == [i \in 1..Len(s) |-> Ch(s[i])]

\* the characters JavaScript's \s and String.prototype.trim treat as blank
\* (those that occur in the modelled texts)
IsWhitespace(c) == c \in {" ", "\n", "\t", "\r"}

\* String.prototype.slice(a, b) for 0 <= a, clamped at the length
Slice(s, a, b) == SubSeq(s, a + 1, Min(b, Len(s)))

\* String.prototype.trim
Trim(s) ==
    LET keep == {i \in 1..Len(s) : ~IsWhitespace(Ch(s[i]))}
    IN  IF keep = {} THEN <<>>
        ELSE LET lo == CHOOSE i \in keep : \A j \in keep : i <= j
                 hi == CHOOSE i \in keep : \A j \in keep : i >= j
             IN  SubSeq(s, lo, hi)

\* the characters a sentence is split at by splitIntoSentences; a wide
\* character is written by its code point
SplitPunctuation == {".", "!", "?", "U+3002", "U+FF01", "U+FF1F"}

\* this.sentenceEndings, set by the constructor
SentenceEndings(opts) ==
    IF opts.multilingualSupport THEN {"U+3002", "U+FF01", "U+FF1F", ".", "!", "?"} ELSE {".", "!", "?"}

isSentenceEnding(c, opts) == c \in SentenceEndings(opts)

\* the constructor: an absent (falsy) numeric option takes the default, a flag
\* that is not false takes the default flag
ChunkerOptions(given, defaultConfig) ==
    [chunkSize |-> IF given.chunkSize # 0 THEN given.chunkSize ELSE defaultConfig.chunkSize,
     overlap |-> IF given.overlap # 0 THEN given.overlap ELSE defaultConfig.overlap,
     maxTextLength |-> IF given.maxTextLength # 0 THEN given.maxTextLength
                       ELSE defaultConfig.maxTextLength,
     preserveSentences |-> IF given.preserveSentences # FALSE
                           THEN defaultConfig.preserveSentences ELSE FALSE,
     multilingualSupport |-> IF given.multilingualSupport # FALSE
                             THEN defaultConfig.multilingualSupport ELSE FALSE]

(***************************************************************************)
(* The pre-split of a large text (preprocessLargeText and its helpers).    *)
(***************************************************************************)
Lowest(S) == CHOOSE i \in S : \A j \in S : i <= j
Highest(S) == CHOOSE i \in S : \A j \in S : i >= j

\* text.split('\n')
RECURSIVE SplitNewline(_)
SplitNewline(s) ==
    LET hits == {i \in 1..Len(s) : Ch(s[i]) = "\n"}
    IN  IF hits = {} THEN <<s>>
        ELSE <<SubSeq(s, 1, Lowest(hits) - 1)>>
                 \o SplitNewline(SubSeq(s, Lowest(hits) + 1, Len(s)))

\* where a match of /\n\s*\n/ that starts at i ends: the last newline of the
\* blank run that follows i (\s* is greedy), 0 when there is no match at i
ParagraphBreakEnd(s, i) ==
    IF Ch(s[i]) # "\n" THEN 0
    ELSE LET run == {r \in i..Len(s) : \A j \in (i + 1)..r : IsWhitespace(Ch(s[j]))}
             nls == {j \in (i + 1)..Highest(run) : Ch(s[j]) = "\n"}
         IN  IF nls = {} THEN 0 ELSE Highest(nls)

\* text.split(this.paragraphSeparators)
RECURSIVE SplitParagraphs(_)
SplitParagraphs(s) ==
    LET hits == {i \in 1..Len(s) : ParagraphBreakEnd(s, i) # 0}
    IN  IF hits = {} THEN <<s>>
        ELSE <<SubSeq(s, 1, Lowest(hits) - 1)>>
                 \o SplitParagraphs(SubSeq(s, ParagraphBreakEnd(s, Lowest(hits)) + 1, Len(s)))

\* text.split(/([...])/) with the capturing group: the pieces and the
\* punctuation marks alternate, piece first and piece last
RECURSIVE SentenceParts(_)
SentenceParts(s) ==
    LET hits == {i \in 1..Len(s) : Ch(s[i]) \in SplitPunctuation}
    IN  IF hits = {} THEN <<s>>
        ELSE <<SubSeq(s, 1, Lowest(hits) - 1), <<s[Lowest(hits)]>>>>
                 \o SentenceParts(SubSeq(s, Lowest(hits) + 1, Len(s)))

\* the loop of splitIntoSentences over the (piece, punctuation) pairs, from
\* the 1-based index k of a piece
RECURSIVE SentencePairs(_, _)
SentencePairs(parts, k) ==
    IF k >= Len(parts) THEN <<>>
    ELSE (IF Trim(parts[k]) # <<>> THEN <<parts[k] \o parts[k + 1]>> ELSE <<>>)
             \o SentencePairs(parts, k + 2)

splitIntoSentences(s, opts) ==
    IF ~opts.preserveSentences THEN <<s>>
    ELSE LET sentenceParts == SentenceParts(s)
             last == sentenceParts[Len(sentenceParts)]
         IN  SentencePairs(sentenceParts, 1)
                 \o (IF Len(sentenceParts) % 2 = 1 /\ Trim(last) # <<>> THEN <<last>> ELSE <<>>)

RECURSIVE splitByFixedLength(_, _)
splitByFixedLength(s, maxSize) ==
    IF Len(s) = 0 THEN <<>>
    ELSE <<Slice(s, 0, maxSize)>> \o splitByFixedLength(Slice(s, maxSize, Len(s)), maxSize)

\* the loop of splitLongParagraph over sentences[k..], with the segments
\* pushed so far and the segment being filled
RECURSIVE RecombineSentences(_, _, _, _, _)
RecombineSentences(sentences, k, segments, currentSegment, maxSize) ==
    IF k > Len(sentences)
    THEN IF currentSegment # <<>> THEN Append(segments, currentSegment) ELSE segments
    ELSE LET sentence == sentences[k]
             flushed == IF currentSegment # <<>> THEN Append(segments, currentSegment)
                        ELSE segments
         IN  IF Len(sentence) > maxSize
             THEN RecombineSentences(sentences, k + 1,
                      flushed \o splitByFixedLength(sentence, maxSize), <<>>, maxSize)
             ELSE IF Len(currentSegment) + Len(sentence) > maxSize
             THEN RecombineSentences(sentences, k + 1, flushed, sentence, maxSize)
             ELSE RecombineSentences(sentences, k + 1, segments,
                      currentSegment \o sentence, maxSize)

splitLongParagraph(s, maxSize, opts) ==
    IF Len(s) <= maxSize THEN <<s>>
    ELSE LET sentences == splitIntoSentences(s, opts)
         IN  IF Len(sentences) = 0 THEN splitByFixedLength(s, maxSize)
             ELSE RecombineSentences(sentences, 1, <<>>, <<>>, maxSize)

\* the two newlines preprocessLargeText puts between recombined paragraphs
ParagraphJoin == <<<<"\n", 0>>, <<"\n", 0>>>>

\* the loop of preprocessLargeText over paragraphs[k..]
RECURSIVE RecombineParagraphs(_, _, _, _, _, _)
RecombineParagraphs(paragraphs, k, processedSegments, currentSegment, targetSegmentSize, opts) ==
    IF k > Len(paragraphs)
    THEN IF currentSegment # <<>> THEN Append(processedSegments, currentSegment)
         ELSE processedSegments
    ELSE LET trimmedPara == Trim(paragraphs[k])
             flushed == IF currentSegment # <<>> THEN Append(processedSegments, currentSegment)
                        ELSE processedSegments
         IN  IF trimmedPara = <<>>
             THEN RecombineParagraphs(paragraphs, k + 1, processedSegments, currentSegment,
                      targetSegmentSize, opts)
             ELSE IF Len(trimmedPara) > targetSegmentSize
             THEN RecombineParagraphs(paragraphs, k + 1,
                      flushed \o splitLongParagraph(trimmedPara, targetSegmentSize, opts),
                      <<>>, targetSegmentSize, opts)
             ELSE IF Len(currentSegment) + Len(trimmedPara) + 2 > targetSegmentSize
             THEN RecombineParagraphs(paragraphs, k + 1, flushed, trimmedPara,
                      targetSegmentSize, opts)
             ELSE RecombineParagraphs(paragraphs, k + 1, processedSegments,
                      IF currentSegment # <<>>
                      THEN currentSegment \o ParagraphJoin \o trimmedPara ELSE trimmedPara,
                      targetSegmentSize, opts)

\* Math.min(maxTextLength, Math.max(10000, maxTextLength / 2)); the halves of
\* the modelled lengths are whole numbers wherever the half is the one chosen
TargetSegmentSize(opts) ==
    Min(opts.maxTextLength, Max(10000, opts.maxTextLength \div 2))

preprocessLargeText(s, opts) ==
    IF Len(s) <= opts.maxTextLength THEN <<s>>
    ELSE LET byParagraph == SplitParagraphs(s)
             paragraphs == IF Len(byParagraph) < 5 THEN SplitNewline(s) ELSE byParagraph
         IN  RecombineParagraphs(paragraphs, 1, <<>>, <<>>, TargetSegmentSize(opts), opts)

(***************************************************************************)
(* The sliding window of chunkSingleSegment.                               *)
(***************************************************************************)
\* the slack by which a window may overrun chunkSize to end a sentence
SentenceSlack == 100

findNextSentenceEnd(s, from, opts) ==
    LET hits == {i \in from..(Len(s) - 1) : isSentenceEnding(Ch(s[i + 1]), opts)}
    IN  IF hits = {} THEN Len(s) ELSE Lowest(hits) + 1

findPreviousSentenceStart(s, from, opts) ==
    LET hits == {i \in 0..(from - 1) : isSentenceEnding(Ch(s[i + 1]), opts)}
    IN  IF hits = {} THEN 0
        ELSE Lowest({p \in (Highest(hits) + 1)..Len(s) :
                        p = Len(s) \/ ~IsWhitespace(Ch(s[p + 1]))})

\* a window that is moved to the next sentence end however far that is
AlwaysToSentenceEnd(s, start, opts) ==
    LET endPos == Min(start + opts.chunkSize, Len(s))
    IN  IF endPos < Len(s) /\ opts.preserveSentences
        THEN findNextSentenceEnd(s, endPos, opts) ELSE endPos
\* endPos of the window that starts at start
WindowEnd(s, start, opts) ==
    LET endPos == Min(start + opts.chunkSize, Len(s))
    IN  IF endPos < Len(s) /\ opts.preserveSentences
        THEN LET sentenceEnd == findNextSentenceEnd(s, endPos, opts)
             IN  IF sentenceEnd <= start + opts.chunkSize + SentenceSlack
                 THEN sentenceEnd ELSE endPos
        ELSE endPos

\* startPos of the window after the one [start, endPos)
NextStart(s, start, endPos, opts) ==
    LET overlapStart == Max(start, endPos - opts.overlap)
        nextSentenceStart == findPreviousSentenceStart(s, overlapStart, opts)
        moved == IF opts.preserveSentences
                       /\ nextSentenceStart > start /\ nextSentenceStart < endPos
                 THEN nextSentenceStart ELSE overlapStart
    IN  IF moved >= endPos THEN endPos ELSE moved

(***************************************************************************)
(* chunkText as a state machine: one step for the entry of chunkText, one  *)
(* per segment, one per iteration of the sliding-window loop.              *)
(***************************************************************************)
ChunkerInit ==
    /\ text \in Texts
    /\ \E cfg \in DocumentConfigs : options = ChunkerOptions(cfg, cfg)
    /\ cpc = "start"
    /\ textSegments = <<>>
    /\ segIdx = 0
    /\ startPos = 0
    /\ chunks = <<>>
    /\ allChunks = <<>>
    /\ stalls = 0

ChunkerIdle ==
    /\ text = <<>>
    /\ options = [chunkSize |-> 1000, overlap |-> 200, maxTextLength |-> 1000000,
                  preserveSentences |-> TRUE, multilingualSupport |-> TRUE]
    /\ cpc = "done"
    /\ textSegments = <<>>
    /\ segIdx = 0
    /\ startPos = 0
    /\ chunks = <<>>
    /\ allChunks = <<>>
    /\ stalls = 0

\* chunkText up to its loop over the segments
ChunkTextEnter ==
    /\ cpc = "start"
    /\ IF Trim(Tag(text)) = <<>>
       THEN /\ cpc' = "done"
            /\ UNCHANGED <<textSegments, segIdx, allChunks>>
       ELSE IF 10 * Len(text) < options.chunkSize
       THEN /\ allChunks' = <<Trim(Tag(text))>>
            /\ cpc' = "done"
            /\ UNCHANGED <<textSegments, segIdx>>
       ELSE /\ textSegments' = preprocessLargeText(Tag(text), options)
            /\ segIdx' = 1
            /\ cpc' = "segment"
            /\ UNCHANGED allChunks
    /\ UNCHANGED <<text, options, startPos, chunks, stalls>>
    /\ UNCHANGED notChunkerVars

\* chunkSingleSegment up to its while loop, for the next segment
ChunkSegmentEnter ==
    /\ cpc = "segment"
    /\ segIdx <= Len(textSegments)
    /\ LET segment == textSegments[segIdx]
       IN  IF Trim(segment) = <<>>
           THEN /\ segIdx' = segIdx + 1
                /\ UNCHANGED <<cpc, allChunks, startPos, chunks, stalls>>
           ELSE IF Len(segment) <= options.chunkSize
           THEN /\ allChunks' = Append(allChunks, Trim(segment))
                /\ segIdx' = segIdx + 1
                /\ UNCHANGED <<cpc, startPos, chunks, stalls>>
           ELSE /\ startPos' = 0
                /\ chunks' = <<>>
                /\ stalls' = 0
                /\ cpc' = "loop"
                /\ UNCHANGED <<segIdx, allChunks>>
    /\ UNCHANGED <<text, options, textSegments>>
    /\ UNCHANGED notChunkerVars

\* one iteration of the while loop of chunkSingleSegment
ChunkWindow ==
    /\ cpc = "loop"
    /\ Len(chunks) < MaxChunks
    /\ LET segment == textSegments[segIdx]
           endPos == WindowEnd(segment, startPos, options)
           chunk == Trim(Slice(segment, startPos, endPos))
           pushed == IF chunk # <<>> THEN Append(chunks, chunk) ELSE chunks
       IN  IF endPos >= Len(segment)
           THEN /\ allChunks' = allChunks \o pushed
                /\ segIdx' = segIdx + 1
                /\ cpc' = "segment"
                /\ chunks' = <<>>
                /\ startPos' = 0
                /\ stalls' = 0
           ELSE /\ chunks' = pushed
                /\ startPos' = NextStart(segment, startPos, endPos, options)
                /\ stalls' = IF startPos' # startPos THEN 0
                             ELSE IF stalls = 0 THEN 1 ELSE 2
                /\ UNCHANGED <<allChunks, segIdx, cpc>>
    /\ UNCHANGED <<text, options, textSegments>>
    /\ UNCHANGED notChunkerVars

\* chunkText returns allChunks
ChunkTextReturn ==
    /\ cpc = "segment"
    /\ segIdx > Len(textSegments)
    /\ cpc' = "done"
    /\ UNCHANGED <<text, options, textSegments, segIdx, startPos, chunks, allChunks, stalls>>
    /\ UNCHANGED notChunkerVars

ChunkerNext == ChunkTextEnter \/ ChunkSegmentEnter \/ ChunkWindow \/ ChunkTextReturn

(***************************************************************************)
(* What the chunks hold of the document.                                   *)
(***************************************************************************)
\* the offsets of the document's characters that are not whitespace
NonBlankOffsets(s) == {i \in 1..Len(s) : ~IsWhitespace(s[i])}

\* the elements of S in increasing order
RECURSIVE Increasing(_)
Increasing(S) == IF S = {} THEN <<>> ELSE <<Lowest(S)>> \o Increasing(S \ {Lowest(S)})

\* the offsets of the non-blank characters of a chunk that lie beyond `seen`,
\* the last offset an earlier chunk reached: its non-overlapping core
CoreOffsets(chunk, seen) ==
    LET core == SelectSeq(chunk, LAMBDA e : ~IsWhitespace(Ch(e)) /\ Src(e) > seen)
    IN  [i \in 1..Len(core) |-> Src(core[i])]

LastOffset(chunk, seen) ==
    Highest({seen} \cup {Src(chunk[i]) : i \in 1..Len(chunk)})

\* the cores of cs[k..] one after the other
RECURSIVE ConcatCores(_, _, _)
ConcatCores(cs, k, seen) ==
    IF k > Len(cs) THEN <<>>
    ELSE CoreOffsets(cs[k], seen) \o ConcatCores(cs, k + 1, LastOffset(cs[k], seen))

\* C1 (as claimed): when chunkText has returned, the non-overlapping cores of
\* the chunks, in order, are the document's non-whitespace characters in
\* order: none is lost, repeated or moved.
C1_ChunkCoverage ==
    cpc = "done" => ConcatCores(allChunks, 1, 0) = Increasing(NonBlankOffsets(text))

\* C2 (as claimed): in the sliding-window loop of chunkSingleSegment the
\* window start never fails to advance in two consecutive iterations, for
\* every text and every configuration with chunkSize > 0 and overlap >= 0.
C2_WindowAlwaysAdvances ==
    (options.chunkSize > 0 /\ options.overlap >= 0) => stalls < 2

\* the substring of the document from offset a to offset b occurs in chunk c
OccursIn(c, a, b) ==
    \E p \in 1..(Len(c) - (b - a)) : SubSeq(Plain(c), p, p + (b - a)) = SubSeq(text, a, b)

\* a chunk ends inside the substring a..b: its last character is one of the
\* substring's characters other than the last
SpansChunkBoundary(cs, a, b) ==
    \E j \in 1..Len(cs) : LET k == Src(cs[j][Len(cs[j])]) IN a <= k /\ k < b

\* the phrases of the document no longer than the overlap: the substrings
\* a..b of at least two characters that begin and end with a character that is
\* not whitespace (whitespace at the edge of a chunk is trimmed away)
ShortPhrases == 
    {ab \in (1..Len(text)) \X (1..Len(text)) :
        /\ ab[1] < ab[2] /\ ab[2] - ab[1] + 1 <= options.overlap
        /\ ~IsWhitespace(text[ab[1]]) /\ ~IsWhitespace(text[ab[2]])}

\* the offsets of the document that occur in some chunk
KeptOffsets(cs) == UNION {{Src(cs[j][i]) : i \in 1..Len(cs[j])} : j \in 1..Len(cs)}

\* C3 (as claimed): when chunkText has returned, every phrase of the document
\* that is no longer than the overlap and spans a chunk boundary occurs intact
\* in at least one chunk.  (Stated for the phrases whose characters all
\* reached the chunks, so that a character lost as in C1 is not counted here.)
C3_BoundarySubstringsSurvive ==
    cpc = "done" =>
        \A ab \in ShortPhrases :
            (/\ SpansChunkBoundary(allChunks, ab[1], ab[2])
             /\ (ab[1]..ab[2]) \cap NonBlankOffsets(text) \subseteq KeptOffsets(allChunks))
                => \E j \in 1..Len(allChunks) : OccursIn(allChunks[j], ab[1], ab[2])

(***************************************************************************)
(* Documents long enough for the sentence slack of the sliding window: a   *)
(* run of letters, a full stop, a few letters more.                        *)
(***************************************************************************)
MinRun == 98      \* shortest run of letters before the full stop
MaxRun == 104     \* longest run of letters before the full stop
MaxTail == 3      \* most letters after the full stop

Run(n) == [i \in 1..n |-> "a"]
SlackTexts == {Run(k) \o <<".">> \o Run(m) : k \in MinRun..MaxRun, m \in 0..MaxTail}

SlackConfigs ==
    [chunkSize : {1, 2, 3}, overlap : {0, 1}, maxTextLength : {1000000},
     preserveSentences : BOOLEAN, multilingualSupport : {FALSE}]

SlackInit ==
    /\ text \in SlackTexts
    /\ \E cfg \in SlackConfigs : options = ChunkerOptions(cfg, cfg)
    /\ cpc = "start"
    /\ textSegments = <<>>
    /\ segIdx = 0
    /\ startPos = 0
    /\ chunks = <<>>
    /\ allChunks = <<>>
    /\ stalls = 0

\* the end of the sentence that is open at offset from (0-based) of the
\* text: the offset behind the next sentence mark, the length if none follows
SentenceEndAfter(from) ==
    LET marks == {i \in (from + 1)..Len(text) : text[i] \in SentenceEndings(options)}
    IN  IF marks = {} THEN Len(text) ELSE Lowest(marks)

\* the window [start, end) of offsets that a chunk was cut from
WindowOf(chunk) == [start |-> Src(chunk[1]) - 1, end |-> Src(chunk[Len(chunk)])]

\* the window ends chunkSize after its start or at the end of the text, or,
\* with preserveSentences, at the next sentence end behind that, which is
\* then no more than chunkSize + 100 from the start; and it does end at that
\* sentence end whenever it is that near
WithinSlack(chunk) ==
    LET w == WindowOf(chunk)
        target == Min(w.start + options.chunkSize, Len(text))
        sentenceEnd == SentenceEndAfter(target)
        near == sentenceEnd <= w.start + options.chunkSize + SentenceSlack
    IN  /\ Len(chunk) <= options.chunkSize + SentenceSlack
        /\ w.end = IF options.preserveSentences /\ target < Len(text) /\ near
                   THEN sentenceEnd ELSE target

\* C28: every window of the sliding-window loop ends exactly chunkSize
\* behind its start (or at the end of the text) unless preserveSentences is
\* set and the next sentence end lies within chunkSize + 100 of the start of
\* the window, in which case it ends there; every chunk produced has at most
\* chunkSize + 100 characters.
C28_SentenceSlackBounded ==
    /\ \A j \in 1..Len(chunks) : WithinSlack(chunks[j])
    /\ \A j \in 1..Len(allChunks) : WithinSlack(allChunks[j])

\* chunkText has returned a chunk of exactly chunkSize + 100 characters that
\* ends a sentence, after a window that it ended at chunkSize because the
\* sentence end was farther than the slack
C28_ExtendedToTheLimit ==
    /\ cpc = "done"
    /\ options.preserveSentences
    /\ \E i, j \in 1..Len(allChunks) :
          /\ Len(allChunks[i]) = options.chunkSize + SentenceSlack
          /\ Ch(allChunks[i][Len(allChunks[i])]) = "."
          /\ Len(allChunks[j]) = options.chunkSize
          /\ WindowOf(allChunks[j]).end < Len(text)
          /\ SentenceEndAfter(WindowOf(allChunks[j]).end) < Len(text)

(***************************************************************************)
(* The graph store and GraphService.  A node or relationship collection is *)
(* a sequence, so that a duplicate would be visible.  A relationship is    *)
(* the pair of the keys of its end nodes.  Every query runs in its own     *)
(* write transaction: one step of the model.                               *)
(***************************************************************************)
MaxIngestions == 2    \* processDocuments calls followed
MaxDocuments == 2     \* longest documents array of one call
MaxDocChunks == 2     \* most chunks of one document

Undefined == <<"undefined">>
Null == <<"null">>

\* md5 of the content, taken as collision-free
Hash(content) == <<"md5", content>>

FileNames == {"d1", "d2"}
ChunkTexts == {<<"a">>, <<"b">>}

WordCount(s) ==
    Cardinality({i \in 1..Len(s) : ~IsWhitespace(s[i]) /\ (i = 1 \/ IsWhitespace(s[i - 1]))})

\* chunk.properties of a ChunkNode as createChunks fills them
ChunkNode(chunkText, embedding) ==
    [text |-> chunkText, length |-> Len(chunkText), tokens |-> WordCount(chunkText),
     embedding |-> embedding]

ProcessedDocument(filename, filePath, chunkNodes) ==
    [filename |-> filename, filePath |-> filePath, chunks |-> chunkNodes]

\* the documents handed to the writer: every list of embedded chunks under
\* the first file name, the lists of at most one chunk under the second, one
\* document with a file path, one whose chunk has no vector
EmbeddedChunks == {ChunkNode(t, <<"vec", t>>) : t \in ChunkTexts}

ProcessedDocuments ==
    {ProcessedDocument("d1", "undefined", cs) : cs \in SeqsUpTo(EmbeddedChunks, MaxDocChunks)}
    \cup {ProcessedDocument("d2", "undefined", cs) : cs \in SeqsUpTo(EmbeddedChunks, 1)}
    \cup {ProcessedDocument("d1", "/docs/d1", <<ChunkNode(<<"a">>, <<"vec", <<"a">>>>)>>),
          ProcessedDocument("d1", "undefined", <<ChunkNode(<<"a">>, Undefined)>>)}

\* BATCH_SIZE
BatchSizes == {1, 2}

EmptyGraph ==
    [documents |-> <<>>, chunks |-> <<>>, partOf |-> <<>>, firstChunk |-> <<>>,
     nextChunk |-> <<>>]

HasDocument(g, fileName) == \E i \in DOMAIN g.documents : g.documents[i].fileName = fileName
HasChunk(g, id) == \E i \in DOMAIN g.chunks : g.chunks[i].id = id

\* CREATE (a)-[:R]->(b): a new relationship whatever the store holds
CreateRelationship(rels, from, to) == Append(rels, <<from, to>>)
\* MERGE (a)-[:R]->(b): a new relationship only if none joins a to b
MergeRelationship(rels, from, to) ==
    IF \E i \in DOMAIN rels : rels[i] = <<from, to>> THEN rels ELSE Append(rels, <<from, to>>)

\* MERGE (d:__Document__ {fileName}) SET d.type, d.uri, d.domain
createDocument(g, type, uri, fileName, domain) ==
    LET node == [fileName |-> fileName, type |-> type, uri |-> uri, domain |-> domain]
        merged == IF HasDocument(g, fileName) THEN g.documents ELSE Append(g.documents, node)
    IN  [g EXCEPT !.documents =
            [i \in DOMAIN merged |-> IF merged[i].fileName = fileName THEN node ELSE merged[i]]]

\* one row of queryChunksAndPartOf: MERGE the chunk by id, SET its
\* properties, MATCH the document of the row, MERGE (c)-[:PART_OF]->(d)
ChunkRow(g, data) ==
    LET node == [id |-> data.id, text |-> data.pg_content, position |-> data.position,
                 length |-> data.length, fileName |-> data.f_name,
                 content_offset |-> data.content_offset, tokens |-> data.tokens,
                 chunk_index |-> data.position, embedding |-> data.embedding]
        merged == IF HasChunk(g, data.id) THEN g.chunks ELSE Append(g.chunks, node)
    IN  [g EXCEPT
            !.chunks = [i \in DOMAIN merged |-> IF merged[i].id = data.id THEN node ELSE merged[i]],
            !.partOf = IF HasDocument(g, data.f_name)
                       THEN MergeRelationship(@, data.id, data.f_name) ELSE @]

RECURSIVE queryChunksAndPartOf(_, _, _)
queryChunksAndPartOf(g, batchData, k) ==
    IF k > Len(batchData) THEN g
    ELSE queryChunksAndPartOf(ChunkRow(g, batchData[k]), batchData, k + 1)

\* MATCH the document and the chunk, MERGE (d)-[:FIRST_CHUNK]->(c)
RECURSIVE queryFirstChunk(_, _, _, _)
queryFirstChunk(g, fileName, relationships, k) ==
    IF k > Len(relationships) THEN g
    ELSE LET chunkId == relationships[k].chunk_id
             next == IF HasDocument(g, fileName) /\ HasChunk(g, chunkId)
                     THEN [g EXCEPT !.firstChunk = MergeRelationship(@, fileName, chunkId)]
                     ELSE g
         IN  queryFirstChunk(next, fileName, relationships, k + 1)

\* MATCH both chunks, MERGE (pc)-[:NEXT_CHUNK]->(c)
RECURSIVE queryNextChunk(_, _, _)
queryNextChunk(g, relationships, k) ==
    IF k > Len(relationships) THEN g
    ELSE LET c == relationships[k].current_chunk_id
             pc == relationships[k].previous_chunk_id
             next == IF HasChunk(g, c) /\ HasChunk(g, pc)
                     THEN [g EXCEPT !.nextChunk = MergeRelationship(@, pc, c)]
                     ELSE g
         IN  queryNextChunk(next, relationships, k + 1)

\* the loop of createRelationBetweenChunks from its i-th iteration (0-based):
\* the createChunksAndRelationshipsOptimized calls it makes, in order
RECURSIVE RelationLoop(_, _, _, _, _, _, _, _, _)
RelationLoop(fileName, cs, i, offset, batchData, firstRelationships, nextRelationships, size, calls) ==
    IF i >= Len(cs)
    THEN IF Len(batchData) > 0
         THEN Append(calls, [batchData |-> batchData,
                             firstRelationships |-> firstRelationships,
                             nextRelationships |-> nextRelationships])
         ELSE calls
    ELSE LET chunk == cs[i + 1]
             pageContent == chunk.text
             currentChunkId == Hash(pageContent)
             position == i + 1
             previousChunkId == IF i = 0 THEN currentChunkId ELSE Hash(cs[i].text)
             newOffset == IF i > 0 THEN offset + Len(cs[i].text) ELSE offset
             chunkData == [id |-> currentChunkId, pg_content |-> pageContent,
                           position |-> position, length |-> chunk.length,
                           f_name |-> fileName, previous_id |-> previousChunkId,
                           content_offset |-> newOffset, tokens |-> chunk.tokens,
                           embedding |-> IF chunk.embedding = Undefined THEN Null
                                         ELSE chunk.embedding]
             data == Append(batchData, chunkData)
             firsts == IF i = 0
                       THEN Append(firstRelationships, [chunk_id |-> currentChunkId])
                       ELSE firstRelationships
             nexts == IF i = 0 THEN nextRelationships
                      ELSE Append(nextRelationships,
                                  [previous_chunk_id |-> previousChunkId,
                                   current_chunk_id |-> currentChunkId])
         IN  IF Len(data) >= size
             THEN RelationLoop(fileName, cs, i + 1, newOffset, <<>>, <<>>, <<>>, size,
                               Append(calls, [batchData |-> data,
                                              firstRelationships |-> firsts,
                                              nextRelationships |-> nexts]))
             ELSE RelationLoop(fileName, cs, i + 1, newOffset, data, firsts, nexts, size, calls)

createRelationBetweenChunks(fileName, cs, size) ==
    RelationLoop(fileName, cs, 0, 0, <<>>, <<>>, <<>>, size, <<>>)

(***************************************************************************)
(* processDocuments as a state machine: the documents of one batch are     *)
(* started together (Promise.all) and interleave at their queries.         *)
(***************************************************************************)
Queued == [pc |-> "queued", k |-> 0]
Done == [pc |-> "done", k |-> 0]

\* documents.slice(i, i + this.batchSize), as 1-based indices
BatchOf == (batchStart + 1)..Min(batchStart + batchSize, Len(documents))

\* the store writes of processDocument for the d-th document
WriteCalls(d) ==
    createRelationBetweenChunks(documents[d].filename, documents[d].chunks, batchSize)

\* an order of the queries in which the relationships of a call are written
\* before its chunk nodes
EdgesBeforeChunks(calls, pos) ==
    IF pos.pc = "createDocument"
    THEN IF calls = <<>> THEN Done
         ELSE IF Len(calls[1].firstRelationships) > 0 THEN [pc |-> "first", k |-> 1]
         ELSE [pc |-> "next", k |-> 1]
    ELSE IF pos.pc = "first" /\ Len(calls[pos.k].nextRelationships) > 0
    THEN [pc |-> "next", k |-> pos.k]
    ELSE IF pos.pc \in {"first", "next"} THEN [pc |-> "chunks", k |-> pos.k]
    ELSE IF pos.k >= Len(calls) THEN Done
    ELSE IF Len(calls[pos.k + 1].firstRelationships) > 0 THEN [pc |-> "first", k |-> pos.k + 1]
    ELSE [pc |-> "next", k |-> pos.k + 1]
\* where processDocument stands once the query at pos has been answered
AfterQuery(calls, pos) ==
    IF pos.pc = "createDocument"
    THEN IF calls = <<>> THEN Done ELSE [pc |-> "chunks", k |-> 1]
    ELSE IF pos.pc = "chunks" /\ Len(calls[pos.k].firstRelationships) > 0
    THEN [pc |-> "first", k |-> pos.k]
    ELSE IF pos.pc \in {"chunks", "first"} /\ Len(calls[pos.k].nextRelationships) > 0
    THEN [pc |-> "next", k |-> pos.k]
    ELSE IF pos.k < Len(calls) THEN [pc |-> "chunks", k |-> pos.k + 1]
    ELSE Done

\* lastWrite after a step of document d that leaves it at pos and the store at g
Recorded(d, pos, g) ==
    IF BatchOf # {d} THEN <<>>
    ELSE IF pos # Done THEN lastWrite
    ELSE <<[document |-> documents[d],
            after |-> g,
            before |-> IF lastWrite # <<>> /\ lastWrite[1].document = documents[d]
                       THEN <<lastWrite[1].after>> ELSE <<>>]>>

\* MAX_WORKERS || '4'
DefaultMaxWorkers == 4

GraphInit ==
    /\ graph = EmptyGraph
    /\ batchSize \in BatchSizes
    /\ maxWorkers = DefaultMaxWorkers
    /\ documents = <<>>
    /\ batchStart = 0
    /\ ipc = "idle"
    /\ dpc = <<>>
    /\ ingestions = 0
    /\ lastWrite = <<>>

GraphIdle ==
    /\ graph = EmptyGraph
    /\ batchSize = 100
    /\ maxWorkers = DefaultMaxWorkers
    /\ documents = <<>>
    /\ batchStart = 0
    /\ ipc = "idle"
    /\ dpc = <<>>
    /\ ingestions = 0
    /\ lastWrite = <<>>

\* a caller invokes processDocuments(docs)
ProcessDocuments ==
    /\ ipc \in {"idle", "returned"}
    /\ ingestions < MaxIngestions
    /\ \E docs \in SeqsUpTo(ProcessedDocuments, MaxDocuments) :
          /\ documents' = docs
          /\ dpc' = [i \in 1..Len(docs) |-> Queued]
    /\ batchStart' = 0
    /\ ipc' = "batch"
    /\ ingestions' = ingestions + 1
    /\ UNCHANGED <<graph, batchSize, maxWorkers, lastWrite>>
    /\ UNCHANGED notGraphVars

\* processDocumentsInBatches: batch.map(doc => processSingleDocument(doc));
\* each processDocument runs up to its first query
StartBatch ==
    /\ ipc = "batch"
    /\ batchStart < Len(documents)
    /\ \A d \in BatchOf : dpc[d] = Queued
    /\ dpc' = [d \in DOMAIN dpc |->
                 IF d \in BatchOf THEN [pc |-> "createDocument", k |-> 0] ELSE dpc[d]]
    /\ UNCHANGED <<graph, batchSize, maxWorkers, documents, batchStart, ipc, ingestions, lastWrite>>
    /\ UNCHANGED notGraphVars

\* processDocument step 1: the createDocument query
CreateDocument(d) ==
    /\ ipc \in {"batch", "threw"}
    /\ dpc[d].pc = "createDocument"
    /\ LET document == documents[d]
           uri == IF document.filePath = "undefined" THEN "" ELSE document.filePath
       IN  graph' = createDocument(graph, "document", uri, document.filename, "general")
    /\ dpc' = [dpc EXCEPT ![d] = AfterQuery(WriteCalls(d), dpc[d])]
    /\ lastWrite' = Recorded(d, dpc'[d], graph')
    /\ UNCHANGED <<batchSize, maxWorkers, documents, batchStart, ipc, ingestions>>
    /\ UNCHANGED notGraphVars

\* createChunksAndRelationshipsOptimized: the chunk-node and PART_OF query
WriteChunks(d) ==
    /\ ipc \in {"batch", "threw"}
    /\ dpc[d].pc = "chunks"
    /\ graph' = queryChunksAndPartOf(graph, WriteCalls(d)[dpc[d].k].batchData, 1)
    /\ dpc' = [dpc EXCEPT ![d] = AfterQuery(WriteCalls(d), dpc[d])]
    /\ lastWrite' = Recorded(d, dpc'[d], graph')
    /\ UNCHANGED <<batchSize, maxWorkers, documents, batchStart, ipc, ingestions>>
    /\ UNCHANGED notGraphVars

\* createChunksAndRelationshipsOptimized: the FIRST_CHUNK query
WriteFirstChunk(d) ==
    /\ ipc \in {"batch", "threw"}
    /\ dpc[d].pc = "first"
    /\ graph' = queryFirstChunk(graph, documents[d].filename,
                                WriteCalls(d)[dpc[d].k].firstRelationships, 1)
    /\ dpc' = [dpc EXCEPT ![d] = AfterQuery(WriteCalls(d), dpc[d])]
    /\ lastWrite' = Recorded(d, dpc'[d], graph')
    /\ UNCHANGED <<batchSize, maxWorkers, documents, batchStart, ipc, ingestions>>
    /\ UNCHANGED notGraphVars

\* createChunksAndRelationshipsOptimized: the NEXT_CHUNK query
WriteNextChunk(d) ==
    /\ ipc \in {"batch", "threw"}
    /\ dpc[d].pc = "next"
    /\ graph' = queryNextChunk(graph, WriteCalls(d)[dpc[d].k].nextRelationships, 1)
    /\ dpc' = [dpc EXCEPT ![d] = AfterQuery(WriteCalls(d), dpc[d])]
    /\ lastWrite' = Recorded(d, dpc'[d], graph')
    /\ UNCHANGED <<batchSize, maxWorkers, documents, batchStart, ipc, ingestions>>
    /\ UNCHANGED notGraphVars

\* processDocumentsInBatches: await Promise.all(promises), then i += batchSize
AwaitBatch ==
    /\ ipc = "batch"
    /\ batchStart < Len(documents)
    /\ \A d \in BatchOf : dpc[d] = Done
    /\ batchStart' = batchStart + batchSize
    /\ UNCHANGED <<graph, batchSize, maxWorkers, documents, ipc, dpc, ingestions, lastWrite>>
    /\ UNCHANGED notGraphVars

\* processDocuments returns once the loop over the batches has ended
ProcessDocumentsReturn ==
    /\ ipc = "batch"
    /\ batchStart >= Len(documents)
    /\ ipc' = "returned"
    /\ UNCHANGED <<graph, batchSize, maxWorkers, documents, batchStart, dpc, ingestions, lastWrite>>
    /\ UNCHANGED notGraphVars

GraphNext ==
    \/ ProcessDocuments
    \/ StartBatch
    \/ \E d \in DOMAIN dpc : CreateDocument(d)
    \/ \E d \in DOMAIN dpc : WriteChunks(d)
    \/ \E d \in DOMAIN dpc : WriteFirstChunk(d)
    \/ \E d \in DOMAIN dpc : WriteNextChunk(d)
    \/ AwaitBatch
    \/ ProcessDocumentsReturn

(***************************************************************************)
(* One processDocuments call in which a write query may throw.             *)
(***************************************************************************)
\* the values of MAX_WORKERS followed
WorkerLimits == {1, DefaultMaxWorkers}

Failed == [pc |-> "failed", k |-> 0]

\* the documents of the call whose processDocument has started and has not ended
InFlight == {d \in DOMAIN dpc : dpc[d].pc \in {"createDocument", "chunks", "first", "next"}}

IngestionInit ==
    /\ graph = EmptyGraph
    /\ batchSize \in BatchSizes
    /\ maxWorkers \in WorkerLimits
    /\ documents = <<>>
    /\ batchStart = 0
    /\ ipc = "idle"
    /\ dpc = <<>>
    /\ ingestions = 0
    /\ lastWrite = <<>>

\* the one call that is followed
FirstProcessDocuments ==
    /\ ingestions = 0
    /\ ProcessDocuments

\* the query processDocument of the d-th document waits for throws:
\* processDocument rethrows, Promise.all rejects, processDocumentsInBatches
\* and processDocuments throw; the other documents of the batch go on
WriteFails(d) ==
    /\ ipc \in {"batch", "threw"}
    /\ d \in InFlight
    /\ dpc' = [dpc EXCEPT ![d] = Failed]
    /\ ipc' = "threw"
    /\ lastWrite' = <<>>
    /\ UNCHANGED <<graph, batchSize, maxWorkers, documents, batchStart, ingestions>>
    /\ UNCHANGED notGraphVars

IngestionNext ==
    \/ FirstProcessDocuments
    \/ StartBatch
    \/ \E d \in DOMAIN dpc : CreateDocument(d)
    \/ \E d \in DOMAIN dpc : WriteChunks(d)
    \/ \E d \in DOMAIN dpc : WriteFirstChunk(d)
    \/ \E d \in DOMAIN dpc : WriteNextChunk(d)
    \/ \E d \in DOMAIN dpc : WriteFails(d)
    \/ AwaitBatch
    \/ ProcessDocumentsReturn

\* C18: at every moment of a processDocuments call at most maxWorkers
\* documents have their write in flight.
C18_BoundedConcurrency ==
    Cardinality(InFlight) <= maxWorkers

\* C19: when a processDocuments call has ended because the write of a
\* document failed, and no write is in flight any more, every document of
\* the call whose write did not fail is written completely.
C19_FailureIsolation ==
    (ipc = "threw" /\ InFlight = {}) =>
        \A d \in DOMAIN dpc : dpc[d] # Failed => dpc[d] = Done

(***************************************************************************)
(* The chain of a document in the store.                                   *)
(***************************************************************************)
\* the FIRST_CHUNK relationships that leave the document
FirstEdges(g, fileName) == {i \in DOMAIN g.firstChunk : g.firstChunk[i][1] = fileName}
\* the NEXT_CHUNK relationships that leave the chunk
NextEdges(g, id) == {i \in DOMAIN g.nextChunk : g.nextChunk[i][1] = id}

ChunkIds(cs) == [i \in 1..Len(cs) |-> Hash(cs[i].text)]

\* one FIRST_CHUNK edge, to the first chunk; the chunks are distinct nodes;
\* each has one NEXT_CHUNK edge, to its successor, the last has none; the
\* nodes carry the positions 1..N
ChainIntact(g, fileName, cs) ==
    LET ids == ChunkIds(cs)
        N == Len(cs)
    IN  /\ Cardinality(FirstEdges(g, fileName)) = 1
        /\ \A i \in FirstEdges(g, fileName) : g.firstChunk[i][2] = ids[1]
        /\ \A i, j \in 1..N : i # j => ids[i] # ids[j]
        /\ \A i \in 1..(N - 1) :
              /\ Cardinality(NextEdges(g, ids[i])) = 1
              /\ \A e \in NextEdges(g, ids[i]) : g.nextChunk[e][2] = ids[i + 1]
        /\ NextEdges(g, ids[N]) = {}
        /\ \A i \in 1..N : \A n \in DOMAIN g.chunks :
              g.chunks[n].id = ids[i] => g.chunks[n].position = i

\* the documents of the call whose write is the last one under their file name
LastWritten ==
    {d \in DOMAIN documents :
        \A e \in DOMAIN documents : e > d => documents[e].filename # documents[d].filename}

\* C4: once processDocuments has returned, every document it wrote that has
\* at least one chunk has exactly one FIRST_CHUNK edge, and the NEXT_CHUNK
\* edges from its first chunk lead through its N chunks, N distinct nodes,
\* in position order and end there, whatever the chunk texts are.
C4_ChainIntegrity ==
    ipc = "returned" =>
        \A d \in LastWritten :
            Len(documents[d].chunks) >= 1
                => ChainIntact(graph, documents[d].filename, documents[d].chunks)

\* no node key and no relationship occurs twice in the store
NoDuplicates(g) ==
    /\ \A i, j \in DOMAIN g.documents :
          g.documents[i].fileName = g.documents[j].fileName => i = j
    /\ \A i, j \in DOMAIN g.chunks : g.chunks[i].id = g.chunks[j].id => i = j
    /\ \A i, j \in DOMAIN g.partOf : g.partOf[i] = g.partOf[j] => i = j
    /\ \A i, j \in DOMAIN g.firstChunk : g.firstChunk[i] = g.firstChunk[j] => i = j
    /\ \A i, j \in DOMAIN g.nextChunk : g.nextChunk[i] = g.nextChunk[j] => i = j

\* C5: a processDocument that writes, alone, the document (same file name,
\* same path, same ordered chunks) that the write before it wrote leaves the
\* store exactly as that write had left it, and nothing in it is duplicated.
C5_RewriteIsIdempotent ==
    (lastWrite # <<>> /\ lastWrite[1].before # <<>>)
        => /\ lastWrite[1].after = lastWrite[1].before[1]
           /\ NoDuplicates(lastWrite[1].after)

\* a document of two chunks has been written a second time
C5_Rewritten ==
    /\ lastWrite # <<>>
    /\ lastWrite[1].before # <<>>
    /\ Len(lastWrite[1].document.chunks) = 2
    /\ Len(lastWrite[1].after.nextChunk) > 0
    /\ Len(lastWrite[1].after.firstChunk) > 0
    /\ Len(lastWrite[1].after.partOf) > 1

\* the Document node and the Chunk nodes that the relationships name are
\* in the store
EndpointsWritten(g, fileName, firstRelationships, nextRelationships) ==
    /\ HasDocument(g, fileName)
    /\ \A i \in DOMAIN firstRelationships : HasChunk(g, firstRelationships[i].chunk_id)
    /\ \A i \in DOMAIN nextRelationships :
          /\ HasChunk(g, nextRelationships[i].current_chunk_id)
          /\ HasChunk(g, nextRelationships[i].previous_chunk_id)

\* the relationships are in the store
EdgesWritten(g, fileName, firstRelationships, nextRelationships) ==
    /\ \A i \in DOMAIN firstRelationships :
          \E e \in DOMAIN g.firstChunk :
             g.firstChunk[e] = <<fileName, firstRelationships[i].chunk_id>>
    /\ \A i \in DOMAIN nextRelationships :
          \E e \in DOMAIN g.nextChunk :
             g.nextChunk[e] = <<nextRelationships[i].previous_chunk_id,
                                nextRelationships[i].current_chunk_id>>

\* C26: when the FIRST_CHUNK query or the NEXT_CHUNK query of a write batch
\* of a document is about to be issued, the Document node and the Chunk
\* nodes at both ends of every relationship of the query are in the store
\* (the chunk query of the batch and the earlier batches have been
\* answered); and when the write of the document has ended every
\* relationship of every batch is in the store.
C26_EdgesAfterEndpoints ==
    \A d \in DOMAIN dpc :
        LET calls == WriteCalls(d)
            fileName == documents[d].filename
        IN  /\ dpc[d].pc = "first"
                => EndpointsWritten(graph, fileName, calls[dpc[d].k].firstRelationships, <<>>)
            /\ dpc[d].pc = "next"
                => /\ EndpointsWritten(graph, fileName, calls[dpc[d].k].firstRelationships,
                                       calls[dpc[d].k].nextRelationships)
                   /\ EdgesWritten(graph, fileName, calls[dpc[d].k].firstRelationships, <<>>)
            /\ dpc[d] = Done
                => \A k \in DOMAIN calls :
                      EdgesWritten(graph, fileName, calls[k].firstRelationships,
                                   calls[k].nextRelationships)

\* a document of two chunks has been written in two write batches: the
\* NEXT_CHUNK relationship of the second batch starts at a chunk of the first
C26_ChainAcrossBatches ==
    \E d \in DOMAIN dpc :
        /\ dpc[d] = Done
        /\ batchSize = 1
        /\ Len(WriteCalls(d)) = 2
        /\ documents[d].chunks[1].text # documents[d].chunks[2].text
        /\ \E e \in DOMAIN graph.nextChunk :
              graph.nextChunk[e] = <<Hash(documents[d].chunks[1].text),
                                     Hash(documents[d].chunks[2].text)>>

\* the Chunk nodes of the store that record the file name
ChunksOf(g, fileName) == {n \in DOMAIN g.chunks : g.chunks[n].fileName = fileName}

\* the nodes carry the positions 1..N, each once, and a node at a higher
\* position has no lower content offset
PositionsContiguous(g, fileName, N) ==
    LET nodes == ChunksOf(g, fileName)
    IN  /\ {g.chunks[n].position : n \in nodes} = 1..N
        /\ Cardinality(nodes) = N
        /\ \A m, n \in nodes :
              g.chunks[m].position <= g.chunks[n].position
                  => g.chunks[m].content_offset <= g.chunks[n].content_offset

\* C21: once processDocuments has returned, the chunk nodes of every
\* document it wrote carry the positions 1..N exactly, N the number of
\* chunks of the document, without gap or repeat, and their content offsets
\* do not decrease with the position.
C21_PositionsAndOffsets ==
    ipc = "returned" =>
        \A d \in LastWritten :
            PositionsContiguous(graph, documents[d].filename, Len(documents[d].chunks))

\* the PART_OF relationships that leave the chunk
PartOfEdges(g, id) == {g.partOf[i] : i \in DOMAIN g.partOf} \cap {<<id, f>> : f \in FileNames}

\* every Chunk node has one PART_OF relationship, to the document whose
\* file name it records
MembershipUnique(g) ==
    \A n \in DOMAIN g.chunks :
        /\ Cardinality({i \in DOMAIN g.partOf : g.partOf[i][1] = g.chunks[n].id}) = 1
        /\ PartOfEdges(g, g.chunks[n].id) = {<<g.chunks[n].id, g.chunks[n].fileName>>}

\* a Chunk node of the store keeps its file name and its PART_OF relationships
MembershipStable ==
    \A n \in DOMAIN graph.chunks :
        \E m \in DOMAIN graph'.chunks :
            /\ graph'.chunks[m].id = graph.chunks[n].id
            /\ graph'.chunks[m].fileName = graph.chunks[n].fileName
            /\ PartOfEdges(graph', graph.chunks[n].id) = PartOfEdges(graph, graph.chunks[n].id)

\* C22: at every moment of any sequence of ingestions every Chunk node has
\* exactly one PART_OF relationship, to the document it was written for, and
\* no step changes that relationship or the file name the chunk records.
C22_MembershipUniqueAndStable ==
    [](MembershipUnique(graph)) /\ [][MembershipStable]_vars

(***************************************************************************)
(* UnifiedSearch.search.  A score is counted in thousandths (0.8 is 800).  *)
(* A JavaScript value that may be a number, an object or something else is *)
(* a record with its kind; an optional field is <<>> or <<value>>.         *)
(***************************************************************************)
MaxVectorResults == 2   \* most results the vector search service hands back
MaxTextRows == 2        \* most rows the lexical query hands back

Unit == 1000            \* the score 1
PrefixLength == 100     \* content.substring(0, 100)

Number(v) == [kind |-> "number", value |-> v, low |-> <<>>, high |-> <<>>]
Object(low, high) == [kind |-> "object", value |-> 0, low |-> low, high |-> high]
Other(kind) == [kind |-> kind, value |-> 0, low |-> <<>>, high |-> <<>>]

\* the scores a result of the vector search service may carry
RawScores ==
    {Number(v) : v \in {0 - 200, 0, 5, 500, 800, 900, 1500}}
    \cup {Object(<<50>>, <<0>>), Object(<<250>>, <<>>), Object(<<0 - 3>>, <<>>),
          Object(<<>>, <<70>>), Object(<<>>, <<>>)}
    \cup {Other("nan"), Other("null"), Other("undefined"), Other("string")}

\* score || 0
OrZero(score) ==
    IF \/ score.kind \in {"nan", "null", "undefined"}
       \/ (score.kind = "number" /\ score.value = 0)
    THEN Number(0) ELSE score

Unclamped(v) == v
\* Math.max(0, Math.min(1, v))
Clamp(v) == Max(0, Min(Unit, v))

normalizeScore(score) ==
    IF score.kind = "number" THEN Clamp(score.value)
    ELSE IF score.kind = "object" /\ score.low # <<>>
    THEN Clamp(score.low[1] * (Unit \div 100))
    ELSE IF score.kind = "object" /\ score.high # <<>>
    THEN Clamp(score.high[1] * (Unit \div 100))
    ELSE Unit \div 2

Unknown == <<"unknown">>
Pad == [i \in 1..PrefixLength |-> "x"]
LongA == Pad \o <<"a">>
LongB == Pad \o <<"b">>

\* s.trim().length = 0
IsBlank(s) == \A i \in 1..Len(s) : IsWhitespace(s[i])

RawVectorResult(id, resultText, score, hasMetadata, fileName) ==
    [id |-> id, text |-> resultText, score |-> score, hasMetadata |-> hasMetadata,
     fileName |-> fileName]

\* what vectorSearchService.search / searchWithContext may hand back: every
\* content under every way the source is resolved, every score, no metadata
RawVectorResults ==
    {RawVectorResult(idf[1], t, Number(900), TRUE, idf[2]) :
        t \in {<<"a">>, LongA, LongB, <<" ">>},
        idf \in {<<<<"c1">>, <<"f">>>>, <<<<"c1">>, <<>>>>, <<<<>>, <<>>>>}}
    \cup {RawVectorResult(<<"c1">>, t, sc, TRUE, <<"f">>) : t \in {<<"a">>, <<"b">>}, sc \in RawScores}
    \cup {RawVectorResult(<<"c1">>, <<"a">>, Number(900), FALSE, <<>>)}

\* performVectorSearch: validResults and their mapping to SearchResult
ValidVectorResult(r) ==
    /\ r.text # <<>>
    /\ ~IsBlank(r.text)
    /\ r.score.kind # "undefined"
    /\ r.hasMetadata

VectorSearchResult(r) ==
    [content |-> r.text,
     source |-> IF r.fileName # <<>> THEN r.fileName ELSE IF r.id # <<>> THEN r.id ELSE Unknown,
     score |-> OrZero(r.score),
     metadata |-> [type |-> "vector_chunk",
                   chunkId |-> IF r.id # <<>> THEN r.id ELSE Unknown,
                   searchMethod |-> "vector"]]

\* the rows of the lexical query: content, chunk id, score 0.8
TextRows ==
    {[content |-> row[1], source |-> row[2], score |-> Number(800)] :
        row \in {<<<<"a">>, <<"c1">>>>, <<LongA, <<"c2">>>>, <<<<"b">>, <<"c3">>>>}}

ValidTextRow(r) ==
    /\ r.content # <<>>
    /\ ~IsBlank(r.content)
    /\ r.source # <<>>
    /\ r.score.kind # "undefined"

TextSearchResult(r) ==
    [content |-> r.content,
     source |-> IF r.source # <<>> THEN r.source ELSE Unknown,
     score |-> OrZero(r.score),
     metadata |-> [type |-> "text_chunk",
                   chunkId |-> IF r.source # <<>> THEN r.source ELSE Unknown,
                   searchMethod |-> "text"]]

\* performVectorSearch / performTextSearch: filter, then map
VectorSearchResults(raw) ==
    LET validResults == SelectSeq(raw, ValidVectorResult)
    IN  [i \in 1..Len(validResults) |-> VectorSearchResult(validResults[i])]

TextSearchResults(rows) ==
    LET validResults == SelectSeq(rows, ValidTextRow)
    IN  [i \in 1..Len(validResults) |-> TextSearchResult(validResults[i])]

\* the strategies
VectorOptions(topK, includeAdjacentChunks) ==
    [topK |-> topK, threshold |-> Unit \div 2, includeAdjacentChunks |-> includeAdjacentChunks,
     contextWindow |-> 2]

searchStrategies ==
    {[name |-> "vector-only", useVectorSearch |-> TRUE, useTextSearch |-> FALSE,
      vectorSearchOptions |-> <<VectorOptions(8, FALSE)>>, textSearchOptions |-> <<>>],
     [name |-> "hybrid-vector-heavy", useVectorSearch |-> TRUE, useTextSearch |-> TRUE,
      vectorSearchOptions |-> <<VectorOptions(8, TRUE)>>, textSearchOptions |-> <<[limit |-> 2]>>],
     [name |-> "vector-with-context", useVectorSearch |-> TRUE, useTextSearch |-> FALSE,
      vectorSearchOptions |-> <<VectorOptions(8, TRUE)>>, textSearchOptions |-> <<>>]}

\* strategies a caller passes as an object
CustomStrategies ==
    {[name |-> "custom", useVectorSearch |-> TRUE, useTextSearch |-> TRUE,
      vectorSearchOptions |-> <<VectorOptions(1, FALSE)>>, textSearchOptions |-> <<>>],
     [name |-> "text-only", useVectorSearch |-> FALSE, useTextSearch |-> TRUE,
      vectorSearchOptions |-> <<>>, textSearchOptions |-> <<>>],
     [name |-> "context-1", useVectorSearch |-> TRUE, useTextSearch |-> FALSE,
      vectorSearchOptions |-> <<[VectorOptions(8, TRUE) EXCEPT !.contextWindow = 1]>>,
      textSearchOptions |-> <<>>]}

StrategyArguments ==
    {[kind |-> "undefined", name |-> <<>>, strategy |-> <<>>]}
    \cup {[kind |-> "string", name |-> <<n>>, strategy |-> <<>>] :
            n \in {"vector-only", "hybrid-vector-heavy", "vector-with-context", "no-such-strategy"}}
    \cup {[kind |-> "object", name |-> <<>>, strategy |-> <<st>>] : st \in CustomStrategies}

\* query.limit: 0 stands for an absent limit
QueryLimits == {0, 1, 3}

UnknownAsVectorOnly(arg) == CHOOSE st \in searchStrategies : st.name = "vector-only"
\* resolveStrategy(options.strategy)
resolveStrategy(arg) ==
    IF arg.kind = "string" /\ \E st \in searchStrategies : st.name = arg.name[1]
    THEN CHOOSE st \in searchStrategies : st.name = arg.name[1]
    ELSE IF arg.kind = "object" THEN arg.strategy[1]
    ELSE CHOOSE st \in searchStrategies : st.name = "vector-with-context"

\* sort((a, b) => b.normalizedScore - a.normalizedScore): a, which stands
\* before b, stays before it unless the comparison is positive
ReversesTies(a, b) == a.normalizedScore > b.normalizedScore
StaysBefore(a, b) == a.normalizedScore >= b.normalizedScore

\* stable sort, highest normalizedScore first
RECURSIVE InsertByScore(_, _)
InsertByScore(sorted, r) ==
    IF sorted = <<>> THEN <<r>>
    ELSE IF StaysBefore(Head(sorted), r)
    THEN <<Head(sorted)>> \o InsertByScore(Tail(sorted), r)
    ELSE <<r>> \o sorted

RECURSIVE SortByScore(_, _, _)
SortByScore(rs, k, sorted) ==
    IF k > Len(rs) THEN sorted ELSE SortByScore(rs, k + 1, InsertByScore(sorted, rs[k]))

WholeContent(content) == content
\* result.content ? result.content.substring(0, 100) : ''
contentPreview(content) == Slice(content, 0, PrefixLength)

DedupKey(r) ==
    (IF r.source # <<>> THEN r.source ELSE Unknown) \o <<"_">> \o contentPreview(r.content)

RECURSIVE Deduplicate(_, _, _, _)
Deduplicate(rs, k, seen, uniqueResults) ==
    IF k > Len(rs) THEN uniqueResults
    ELSE IF DedupKey(rs[k]) \in seen
    THEN Deduplicate(rs, k + 1, seen, uniqueResults)
    ELSE Deduplicate(rs, k + 1, seen \cup {DedupKey(rs[k])}, Append(uniqueResults, rs[k]))

qualityThreshold == Unit \div 100

ValidResult(r) == r.content # <<>> /\ ~IsBlank(r.content)
Normalized(r) ==
    [content |-> r.content, source |-> r.source, score |-> r.score, metadata |-> r.metadata,
     normalizedScore |-> normalizeScore(r.score)]
PassesQuality(r) == r.normalizedScore >= qualityThreshold

optimizeResults(rs, limit) ==
    LET validResults == SelectSeq(rs, ValidResult)
        normalizedResults == [i \in 1..Len(validResults) |-> Normalized(validResults[i])]
        sorted == SortByScore(normalizedResults, 1, <<>>)
        uniqueResults == Deduplicate(sorted, 1, {}, <<>>)
        filteredResults == SelectSeq(uniqueResults, PassesQuality)
    IN  IF Len(validResults) = 0 THEN <<>> ELSE Slice(filteredResults, 0, limit)

(***************************************************************************)
(* search as a state machine: a step per awaited branch, a last step for   *)
(* optimizeResults and the return.                                         *)
(***************************************************************************)
NoQuery == [query |-> <<>>, limit |-> 0]
NoSearchOptions == [strategy |-> [kind |-> "undefined", name |-> <<>>, strategy |-> <<>>],
                    fallbackToText |-> "undefined"]

\* no search awaited yet
NoBranches == [vector |-> "none", fallback |-> "none", text |-> "none"]

SearchInit ==
    /\ branches = NoBranches
    /\ query = NoQuery
    /\ searchOptions = NoSearchOptions
    /\ strategy = resolveStrategy(NoSearchOptions.strategy)
    /\ spc = "idle"
    /\ results = <<>>
    /\ returned = <<>>

\* where search goes on once the vector branch is over
AfterVectorBranch == IF strategy.useTextSearch THEN "text" ELSE "optimize"

\* performVectorSearch: the topK handed to the vector search service
VectorTopK ==
    LET opts == strategy.vectorSearchOptions
        topK == IF opts # <<>> /\ opts[1].topK # 0 THEN opts[1].topK ELSE 10
    IN  IF opts # <<>> /\ opts[1].includeAdjacentChunks THEN Max(topK, 8)
        ELSE IF query.limit # 0 THEN query.limit ELSE topK

\* the vector search service answers: at most topK results from search
\* (LIMIT $topK), more are possible from searchWithContext
VectorAnswers ==
    LET opts == strategy.vectorSearchOptions
    IN  SeqsUpTo(RawVectorResults,
                 IF opts # <<>> /\ opts[1].includeAdjacentChunks THEN MaxVectorResults
                 ELSE Min(VectorTopK, MaxVectorResults))

\* the lexical query answers: at most limit rows, one per chunk
TextAnswers(limit) ==
    {rows \in SeqsUpTo(TextRows, Min(limit, MaxTextRows)) :
        \A i, j \in 1..Len(rows) : i # j => rows[i].source # rows[j].source}

\* search: the condition under which a failed vector search is replaced by
\* a text search
NeverFallback(st, opts) == FALSE
FallbackAllowed(st, opts) == ~st.useTextSearch /\ opts.fallbackToText # "false"

\* search: what the outer catch makes of an error
Rethrow == [spc |-> "raised", returned |-> <<>>]
OuterCatch == [spc |-> "returned", returned |-> <<>>]

\* search(query, options) up to its first await
SearchCall ==
    /\ spc = "idle"
    /\ branches' = NoBranches
    /\ \E limit \in QueryLimits : query' = [query |-> <<"a">>, limit |-> limit]
    /\ \E arg \in StrategyArguments, fallback \in {"undefined", "false"} :
          searchOptions' = [strategy |-> arg, fallbackToText |-> fallback]
    /\ strategy' = resolveStrategy(searchOptions'.strategy)
    /\ results' = <<>>
    /\ spc' = IF strategy'.useVectorSearch THEN "vector"
              ELSE IF strategy'.useTextSearch THEN "text" ELSE "optimize"
    /\ UNCHANGED returned
    /\ UNCHANGED notSearchVars

\* performVectorSearch resolves
VectorSearchResolves ==
    /\ spc = "vector"
    /\ \E vectorResults \in VectorAnswers :
          results' = results \o VectorSearchResults(vectorResults)
    /\ spc' = AfterVectorBranch
    /\ branches' = [branches EXCEPT !.vector = "resolved"]
    /\ UNCHANGED <<query, searchOptions, strategy, returned>>
    /\ UNCHANGED notSearchVars

\* performVectorSearch throws
VectorSearchFails ==
    /\ spc = "vector"
    /\ spc' = IF FallbackAllowed(strategy, searchOptions) THEN "fallback" ELSE AfterVectorBranch
    /\ branches' = [branches EXCEPT !.vector = "failed"]
    /\ UNCHANGED <<query, searchOptions, strategy, results, returned>>
    /\ UNCHANGED notSearchVars

\* the fallback performTextSearch resolves
FallbackResolves ==
    /\ spc = "fallback"
    /\ \E rows \in TextAnswers(IF query.limit # 0 THEN query.limit ELSE 10) :
          results' = results \o TextSearchResults(rows)
    /\ spc' = AfterVectorBranch
    /\ branches' = [branches EXCEPT !.fallback = "resolved"]
    /\ UNCHANGED <<query, searchOptions, strategy, returned>>
    /\ UNCHANGED notSearchVars

\* the fallback performTextSearch throws: the outer catch returns []
FallbackFails ==
    /\ spc = "fallback"
    /\ returned' = OuterCatch.returned
    /\ spc' = OuterCatch.spc
    /\ branches' = [branches EXCEPT !.fallback = "failed"]
    /\ UNCHANGED <<query, searchOptions, strategy, results>>
    /\ UNCHANGED notSearchVars

\* performTextSearch of the strategy resolves
TextSearchResolves ==
    /\ spc = "text"
    /\ LET opts == strategy.textSearchOptions
           limit == IF opts # <<>> /\ opts[1].limit # 0 THEN opts[1].limit
                    ELSE IF query.limit # 0 THEN query.limit ELSE 10
       IN  \E rows \in TextAnswers(limit) : results' = results \o TextSearchResults(rows)
    /\ spc' = "optimize"
    /\ branches' = [branches EXCEPT !.text = "resolved"]
    /\ UNCHANGED <<query, searchOptions, strategy, returned>>
    /\ UNCHANGED notSearchVars

\* performTextSearch of the strategy throws
TextSearchFails ==
    /\ spc = "text"
    /\ spc' = "optimize"
    /\ branches' = [branches EXCEPT !.text = "failed"]
    /\ UNCHANGED <<query, searchOptions, strategy, results, returned>>
    /\ UNCHANGED notSearchVars

\* optimizeResults(results, resultLimit) and the return
SearchReturn ==
    /\ spc = "optimize"
    /\ LET opts == strategy.vectorSearchOptions
           resultLimit == IF opts # <<>> /\ opts[1].topK # 0 THEN opts[1].topK
                          ELSE IF query.limit # 0 THEN query.limit ELSE 10
       IN  returned' = optimizeResults(results, resultLimit)
    /\ spc' = "returned"
    /\ UNCHANGED <<query, searchOptions, strategy, results, branches>>
    /\ UNCHANGED notSearchVars

SearchNext ==
    \/ SearchCall
    \/ VectorSearchResolves
    \/ VectorSearchFails
    \/ FallbackResolves
    \/ FallbackFails
    \/ TextSearchResolves
    \/ TextSearchFails
    \/ SearchReturn

\* the first 100 characters of a content
ContentPrefix(content) == SubSeq(content, 1, Min(PrefixLength, Len(content)))

\* C6: no two results of one response have the same source and the same
\* first 100 characters of content.
C6_NoDuplicateKeys ==
    spc = "returned" =>
        \A i, j \in 1..Len(returned) :
            (/\ returned[i].source = returned[j].source
             /\ ContentPrefix(returned[i].content) = ContentPrefix(returned[j].content))
                => i = j

\* search gathered two results of good score that differ only after their
\* first 100 characters, and returned one of them
C6_LongDuplicateDropped ==
    /\ spc = "returned"
    /\ Len(returned) >= 1
    /\ \E i, j \in 1..Len(results) :
          /\ results[i].content = LongA
          /\ results[j].content = LongB
          /\ results[i].source = results[j].source
          /\ normalizeScore(results[i].score) >= qualityThreshold
          /\ normalizeScore(results[j].score) >= qualityThreshold

\* C7: the normalized score of every returned result lies in [0, 1].
C7_ScoreInUnitRange ==
    spc = "returned" =>
        \A i \in 1..Len(returned) :
            returned[i].normalizedScore >= 0 /\ returned[i].normalizedScore <= Unit

\* a result whose raw score is above 1 and one whose score is an object
\* were returned
C7_OutOfRangeReturned ==
    /\ spc = "returned"
    /\ \E i \in 1..Len(returned) :
          returned[i].score.kind = "number" /\ returned[i].score.value > Unit
    /\ \E i \in 1..Len(returned) :
          returned[i].score.kind = "object" /\ returned[i].score.low # <<>>

\* C11: search never throws to its caller: whichever of its searches fail,
\* the call ends by returning a list, and the list is empty only if no
\* search of the call handed over a result that has a content and whose
\* normalized score passes the quality threshold.
C11_SearchIsTotal ==
    /\ spc # "raised"
    /\ (spc = "returned" /\ returned = <<>>) =>
          \A i \in 1..Len(results) :
              ~(/\ results[i].content # <<>>
                /\ ~IsBlank(results[i].content)
                /\ normalizeScore(results[i].score) >= qualityThreshold)

\* search has returned after its vector search and the text search that
\* replaced it both failed
C11_EveryBranchFailed ==
    /\ spc = "returned"
    /\ branches.vector = "failed"
    /\ branches.fallback = "failed"
    /\ returned = <<>>

\* C12: when the vector search of a call fails and options.fallbackToText
\* is not false, a text search runs in its place (for a strategy with a
\* text search of its own, that one runs) and what the call returns comes
\* from the text search; when fallbackToText is false no text search runs
\* in place of the vector search.
C12_FallbackToLexical ==
    (spc = "returned" /\ branches.vector = "failed") =>
        /\ searchOptions.fallbackToText # "false" =>
              /\ IF strategy.useTextSearch THEN branches.text # "none"
                 ELSE branches.fallback # "none"
              /\ \A i \in 1..Len(returned) : returned[i].metadata.searchMethod = "text"
              /\ branches.fallback = "resolved" =>
                    \A i \in 1..Len(returned) :
                        \E j \in 1..Len(results) :
                            /\ returned[i].content = results[j].content
                            /\ returned[i].source = results[j].source
        /\ searchOptions.fallbackToText = "false" => branches.fallback = "none"

\* the vector search failed and search returned a result of the text search
\* that replaced it
C12_FallbackResultsReturned ==
    /\ spc = "returned"
    /\ branches.vector = "failed"
    /\ branches.fallback = "resolved"
    /\ Len(returned) >= 1

\* C13: a search whose options.strategy is absent or names no registered
\* strategy runs vector-with-context (vector search with context expansion,
\* no text search of its own) and does not throw.
C13_UnknownStrategyRunsDefault ==
    LET arg == searchOptions.strategy
        unknown == \/ arg.kind = "undefined"
                   \/ /\ arg.kind = "string"
                      /\ arg.name[1] \notin {"vector-only", "hybrid-vector-heavy", "vector-with-context"}
    IN  unknown =>
            /\ strategy.name = "vector-with-context"
            /\ strategy.useVectorSearch
            /\ ~strategy.useTextSearch
            /\ strategy.vectorSearchOptions[1].includeAdjacentChunks
            /\ spc \notin {"raised", "text"}
            /\ branches.text = "none"
            /\ spc \in {"fallback", "optimize", "returned"} => branches.vector # "none"

\* a search for a strategy name that is not registered has returned results
\* of the vector search
C13_UnknownNameAnswered ==
    /\ spc = "returned"
    /\ searchOptions.strategy.kind = "string"
    /\ searchOptions.strategy.name = <<"no-such-strategy">>
    /\ branches.vector = "resolved"
    /\ Len(returned) >= 1

\* the lexical request of the strategy has been issued
TextIssued == spc = "text" \/ branches.text # "none"
\* the vector branch has ended, with its fallback if one was run
VectorFinished == branches.vector # "none" /\ spc \notin {"vector", "fallback"}

\* C25: for a strategy with both a vector and a lexical search, the lexical
\* request is outstanding whenever the vector request is (search does not
\* wait for the vector branch before it issues the lexical one), and the
\* results are optimized only after both branches have ended.
C25_ConcurrentBranches ==
    (strategy.useVectorSearch /\ strategy.useTextSearch) =>
        /\ spc = "vector" => TextIssued
        /\ spc = "optimize" => (VectorFinished /\ branches.text # "none")

\* the place of a returned result in the concatenation of the branches
FirstIndexIn(rs, r) == Lowest({p \in 1..Len(rs) : Normalized(rs[p]) = r})

\* C24: the results of a search are in non-increasing order of normalized
\* score, and two results with the same normalized score are in the order
\* in which the branches were concatenated: a vector result is never behind
\* a lexical result of the same normalized score.
C24_RankingOrder ==
    spc = "returned" =>
        \A i, j \in 1..Len(returned) :
            i < j =>
                /\ returned[i].normalizedScore >= returned[j].normalizedScore
                /\ returned[i].normalizedScore = returned[j].normalizedScore
                      => /\ FirstIndexIn(results, returned[i]) < FirstIndexIn(results, returned[j])
                         /\ ~(/\ returned[i].metadata.searchMethod = "text"
                              /\ returned[j].metadata.searchMethod = "vector")

\* a search has returned a vector result and a lexical result with the same
\* normalized score, and a third result with a lower one
C24_TieAcrossBranches ==
    /\ spc = "returned"
    /\ \E i, j, k \in 1..Len(returned) :
          /\ returned[i].normalizedScore = returned[j].normalizedScore
          /\ returned[i].metadata.searchMethod = "vector"
          /\ returned[j].metadata.searchMethod = "text"
          /\ returned[k].normalizedScore < returned[i].normalizedScore

\* C14: search returns at most query.limit results.
C14_TruncatedToLimit ==
    (spc = "returned" /\ query.limit # 0) => Len(returned) <= query.limit

(***************************************************************************)
(* VectorSearchService.search / searchWithContext over a store that holds  *)
(* the chunks of one document, chained by NEXT_CHUNK in position order.    *)
(* The chunk at position p has the text "c" p and the file name "f"; its   *)
(* similarity to the query is store.similarity[p].  UnifiedSearch.search   *)
(* calls the service from performVectorSearch.                             *)
(***************************************************************************)
MaxStoreChunks == 3     \* chunks of an enumerated document
LongDocumentChunks == 10  \* chunks of the long document with a single hit

\* similarities: below the threshold 0.5, between it and 0.8, 0.8, above
Similarities == {300, 600, 800, 900}
\* getAdjacentChunks: 0.8 as score
AdjacentScore == 800

Numeral == <<"1", "2", "3", "4", "5", "6", "7", "8", "9", "10", "11">>
ChunkTextAt(p) == <<"c", Numeral[p]>>
\* c.id: the hash of the text
ChunkIdAt(p) == <<"md5:">> \o ChunkTextAt(p)

Stores ==
    UNION {{[size |-> n, similarity |-> sim] : sim \in [1..n -> Similarities]} :
              n \in 1..MaxStoreChunks}
    \cup {[size |-> LongDocumentChunks,
           similarity |-> [q \in 1..LongDocumentChunks |-> IF q = p THEN sc ELSE 300]] :
            p \in {1, 5, 9}, sc \in {600, 900}}

\* a row of searchSimilarVectors or getAdjacentChunks, mapped
ChunkResult(p, score) ==
    RawVectorResult(ChunkIdAt(p), ChunkTextAt(p), Number(score), TRUE, <<"f">>)

\* searchSimilarVectors: the positions the query may hand back, best first,
\* at most topK; the order of equal similarities is the store's choice
searchSimilarVectors(st, topK, threshold) ==
    LET matching == {p \in 1..st.size : st.similarity[p] >= threshold}
        k == Min(topK, Cardinality(matching))
    IN  {ps \in [1..k -> matching] :
            /\ \A i, j \in 1..k : i < j =>
                  (ps[i] # ps[j] /\ st.similarity[ps[i]] >= st.similarity[ps[j]])
            /\ \A q \in matching \ {ps[i] : i \in 1..k} :
                  \A i \in 1..k : st.similarity[ps[i]] >= st.similarity[q]}

\* getAdjacentChunks: NEXT_CHUNK*1..contextWindow forward, then backward
getAdjacentChunks(st, p, contextWindow) ==
    LET forward == [d \in 1..Min(contextWindow, st.size - p) |-> ChunkResult(p + d, AdjacentScore)]
        backward == [d \in 1..Min(contextWindow, p - 1) |-> ChunkResult(p - d, AdjacentScore)]
    IN  forward \o backward

\* removeDuplicates: the first result of each id
RECURSIVE removeDuplicates(_, _, _, _)
removeDuplicates(rs, k, seen, kept) ==
    IF k > Len(rs) THEN kept
    ELSE IF rs[k].id \in seen THEN removeDuplicates(rs, k + 1, seen, kept)
    ELSE removeDuplicates(rs, k + 1, seen \cup {rs[k].id}, Append(kept, rs[k]))

\* uniqueResults.sort((a, b) => b.score - a.score), a stable sort
RECURSIVE InsertBySimilarity(_, _)
InsertBySimilarity(sorted, r) ==
    IF sorted = <<>> THEN <<r>>
    ELSE IF Head(sorted).score.value >= r.score.value
    THEN <<Head(sorted)>> \o InsertBySimilarity(Tail(sorted), r)
    ELSE <<r>> \o sorted

RECURSIVE SortBySimilarity(_, _, _)
SortBySimilarity(rs, k, sorted) ==
    IF k > Len(rs) THEN sorted ELSE SortBySimilarity(rs, k + 1, InsertBySimilarity(sorted, rs[k]))

\* performVectorSearch: the options handed to the service
ContextWindow == strategy.vectorSearchOptions[1].contextWindow
IncludeAdjacentChunks ==
    strategy.vectorSearchOptions # <<>> /\ strategy.vectorSearchOptions[1].includeAdjacentChunks
Threshold ==
    IF strategy.vectorSearchOptions # <<>> THEN strategy.vectorSearchOptions[1].threshold
    ELSE Unit \div 2

ContextInit ==
    /\ store \in Stores
    /\ xpc = "idle"
    /\ initialResults = <<>>
    /\ hitIdx = 0
    /\ expandedResults = <<>>
    /\ expansionFailed = FALSE

ContextIdle ==
    /\ store = [size |-> 0, similarity |-> <<>>]
    /\ xpc = "idle"
    /\ initialResults = <<>>
    /\ hitIdx = 0
    /\ expandedResults = <<>>
    /\ expansionFailed = FALSE

\* search: embedQuery and searchSimilarVectors resolve; without context
\* expansion, or with no result, the rows go back to performVectorSearch
SearchSimilarVectors ==
    /\ spc = "vector"
    /\ xpc = "idle"
    /\ \E ps \in searchSimilarVectors(store, VectorTopK, Threshold) :
          LET rows == [i \in 1..Len(ps) |-> ChunkResult(ps[i], store.similarity[ps[i]])]
          IN  /\ initialResults' = rows
              /\ IF IncludeAdjacentChunks /\ Len(rows) > 0
                 THEN /\ xpc' = "expand"
                      /\ hitIdx' = 1
                      /\ UNCHANGED <<results, spc, branches>>
                 ELSE /\ xpc' = "done"
                      /\ hitIdx' = 0
                      /\ results' = results \o VectorSearchResults(rows)
                      /\ spc' = AfterVectorBranch
                      /\ branches' = [branches EXCEPT !.vector = "resolved"]
    /\ UNCHANGED <<store, expandedResults, expansionFailed>>
    /\ UNCHANGED <<query, searchOptions, strategy, returned>>
    /\ UNCHANGED notContextVars

\* search: embedQuery or searchSimilarVectors throws
SearchSimilarVectorsFails ==
    /\ xpc = "idle"
    /\ VectorSearchFails

\* searchWithContext: one turn of the loop, with what getAdjacentChunks
\* hands back; after the last turn removeDuplicates, the sort and the
\* return to performVectorSearch
ExpandResult(adjacentChunks) ==
    LET expanded == expandedResults \o <<initialResults[hitIdx]>> \o adjacentChunks
        sortedResults == SortBySimilarity(removeDuplicates(expanded, 1, {}, <<>>), 1, <<>>)
    IN  /\ spc = "vector"
        /\ xpc = "expand"
        /\ expandedResults' = expanded
        /\ IF hitIdx < Len(initialResults)
           THEN /\ hitIdx' = hitIdx + 1
                /\ UNCHANGED <<xpc, results, spc, branches>>
           ELSE /\ xpc' = "done"
                /\ UNCHANGED hitIdx
                /\ results' = results \o VectorSearchResults(sortedResults)
                /\ spc' = AfterVectorBranch
                /\ branches' = [branches EXCEPT !.vector = "resolved"]
        /\ UNCHANGED <<store, initialResults>>
        /\ UNCHANGED <<query, searchOptions, strategy, returned>>
        /\ UNCHANGED notContextVars

\* getAdjacentChunks resolves with the neighbours
GetAdjacentChunks ==
    /\ xpc = "expand"
    /\ LET p == CHOOSE q \in 1..store.size : ChunkIdAt(q) = initialResults[hitIdx].id
       IN  ExpandResult(getAdjacentChunks(store, p, ContextWindow))
    /\ UNCHANGED expansionFailed

\* getAdjacentChunks catches an error of the store and returns []
GetAdjacentChunksFails ==
    /\ xpc = "expand"
    /\ ExpandResult(<<>>)
    /\ expansionFailed' = TRUE

ContextNext ==
    \/ SearchCall
    \/ SearchSimilarVectors
    \/ SearchSimilarVectorsFails
    \/ GetAdjacentChunks
    \/ GetAdjacentChunksFails
    \/ FallbackResolves
    \/ FallbackFails
    \/ TextSearchResolves
    \/ TextSearchFails
    \/ SearchReturn

\* the position in the document of a result that came from the store
PositionOf(r) == CHOOSE p \in 1..store.size : ChunkTextAt(p) = r.content
\* the returned results that came from the vector search service
VectorReturned == {i \in 1..Len(returned) : returned[i].metadata.searchMethod = "vector"}
\* the positions searchSimilarVectors handed back
PrimaryHits ==
    {p \in 1..store.size : \E i \in 1..Len(initialResults) : initialResults[i].id = ChunkIdAt(p)}

\* C15: with context expansion, a returned chunk that is only a neighbour
\* of a hit has a score below the similarity of every hit, and no such
\* chunk is ranked before a hit.
C15_ExpansionBelowPrimaryHits ==
    (spc = "returned" /\ IncludeAdjacentChunks /\ branches.vector = "resolved") =>
        \A i \in VectorReturned :
            PositionOf(returned[i]) \notin PrimaryHits =>
                /\ \A p \in PrimaryHits : returned[i].score.value < store.similarity[p]
                /\ \A j \in VectorReturned :
                      PositionOf(returned[j]) \in PrimaryHits => j < i

\* C16: with context expansion, a hit that is also within the window of
\* another hit is returned once, with its own similarity as score.
C16_DirectHitKeepsItsScore ==
    (spc = "returned" /\ IncludeAdjacentChunks /\ branches.vector = "resolved" /\ ~expansionFailed) =>
        \A p, q \in PrimaryHits :
            (p # q /\ p - q <= ContextWindow /\ q - p <= ContextWindow) =>
                LET occurrences == {i \in VectorReturned : PositionOf(returned[i]) = p}
                IN  /\ Cardinality(occurrences) = 1
                    /\ \A i \in occurrences : returned[i].score = Number(store.similarity[p])

\* C17: a search with context expansion and no text search whose similarity
\* query has a single hit, at position p of a document of N chunks, returns
\* exactly the chunks at positions max(1, p - W) .. min(N, p + W), the hit
\* first (W: the context window of the strategy).
C17_BoundedContextExpansion ==
    (/\ spc = "returned"
     /\ IncludeAdjacentChunks
     /\ ~strategy.useTextSearch
     /\ branches.vector = "resolved"
     /\ ~expansionFailed
     /\ Len(initialResults) = 1) =>
        LET p == CHOOSE q \in PrimaryHits : TRUE
            window == Max(1, p - ContextWindow)..Min(store.size, p + ContextWindow)
        IN  /\ {PositionOf(returned[i]) : i \in 1..Len(returned)} = window
            /\ Len(returned) = Cardinality(window)
            /\ PositionOf(returned[1]) = p

(***************************************************************************)
(* EmbeddingManager over GeminiEmbeddingModel.  The provider's vector for  *)
(* a text t is <<"vec", t>>.  Texts are ASCII: a character is a byte.      *)
(***************************************************************************)
MaxEmbedCalls == 2    \* embedQuery / embedDocuments calls followed
MaxBatchTexts == 2    \* longest texts list of embedDocuments
MaxTicks == 2         \* times the clock is moved on
MaxClears == 1        \* clearCache calls followed

cacheTTL == 24 * 60 * 60 * 1000
\* the clock moves on by twelve hours
TickMs == 12 * 60 * 60 * 1000
\* GeminiEmbeddingModel.config.maxRetries
maxRetries == 3
\* the bytes of the text that 32 base64 characters encode
KeyBytes == 24

Embedding(t) == <<"vec", t>>

KeyPad == [i \in 1..KeyBytes |-> "x"]
LongTextA == KeyPad \o <<"a">>
LongTextB == KeyPad \o <<"b">>
EmbedTexts == {<<"a">>, <<" ">>, LongTextA, LongTextB}

\* EMBEDDING_RETRY_ATTEMPTS (0: not a number, or 0) and GEMINI_API_KEY
EmbedConfigs == [retryAttempts : {0, 2, 3}, apiKey : BOOLEAN]

\* Buffer.from(text).toString('base64').substring(0, 32): the first 24 bytes
\* of the text decide the key, a shorter text decides it alone
generateCacheKey(t) == <<"embedding:">> \o SubSeq(t, 1, Min(KeyBytes, Len(t)))

EmptyCache == [k \in {} |-> Null]

EvictAll(c, key) == EmptyCache
\* delete this.cache[key]
Evict(c, key) == [k \in DOMAIN c \ {key} |-> c[k]]

\* getFromCache: the embedding or null, and the cache it leaves
getFromCache(c, key, t) ==
    IF key \in DOMAIN c /\ t - c[key].timestamp < c[key].ttl
    THEN [embedding |-> c[key].embedding, cache |-> c]
    ELSE [embedding |-> Null, cache |-> Evict(c, key)]

setCache(c, key, embedding, t) ==
    [k \in DOMAIN c \cup {key} |->
        IF k = key THEN [embedding |-> embedding, timestamp |-> t, ttl |-> cacheTTL]
        ELSE c[k]]

\* if (cached)
Truthy(v) == v # Null /\ v # Undefined

SingleAttempt(configured) == 1
\* this.config.retryAttempts || 3
AttemptCount(configured) == IF configured # 0 THEN configured ELSE 3

\* callGeminiEmbeddingAPI: validTexts
ValidText(t) == t # <<>> /\ ~IsBlank(t)
\* callGeminiEmbeddingAPI gets as far as its first request
RequestIsSent(ts, config) ==
    /\ Len(ts) > 0
    /\ config.apiKey
    /\ SelectSeq(ts, ValidText) # <<>>

\* callGeminiEmbeddingAPI: response.embeddings.map(item => item.values)
ApiEmbeddings(ts) ==
    LET validTexts == SelectSeq(ts, ValidText)
    IN  [i \in 1..Len(validTexts) |-> Embedding(validTexts[i])]

\* embedDocuments: the loop that checks the cache, from index i (0-based)
RECURSIVE CheckCache(_, _, _, _, _, _, _)
CheckCache(ts, i, c, t, res, uTexts, uIndices) ==
    IF i >= Len(ts)
    THEN [cache |-> c, results |-> res, uncachedTexts |-> uTexts, uncachedIndices |-> uIndices]
    ELSE LET look == getFromCache(c, generateCacheKey(ts[i + 1]), t)
         IN  IF Truthy(look.embedding)
             THEN CheckCache(ts, i + 1, look.cache, t, [res EXCEPT ![i + 1] = look.embedding],
                             uTexts, uIndices)
             ELSE CheckCache(ts, i + 1, look.cache, t, res,
                             Append(uTexts, ts[i + 1]), Append(uIndices, i))

\* embedDocuments: the loop that puts the new embeddings back, from index i
RECURSIVE PutBack(_, _, _, _, _, _, _)
PutBack(i, res, c, newEmbeddings, uTexts, uIndices, t) ==
    IF i >= Len(uIndices) THEN [cache |-> c, results |-> res]
    ELSE LET originalIndex == uIndices[i + 1]
             embedding == IF i + 1 <= Len(newEmbeddings) THEN newEmbeddings[i + 1]
                          ELSE Undefined
         IN  PutBack(i + 1, [res EXCEPT ![originalIndex + 1] = embedding],
                     setCache(c, generateCacheKey(uTexts[i + 1]), embedding, t),
                     newEmbeddings, uTexts, uIndices, t)

NoLog ==
    [providerCalls |-> 0, apiCalls |-> 0, stores |-> 0, hit |-> FALSE, cleared |-> FALSE,
     cacheAtCall |-> EmptyCache]

EmbedInit ==
    /\ cache = EmptyCache
    /\ now = 0
    /\ embedConfig \in EmbedConfigs
    /\ eop = "none"
    /\ etexts = <<>>
    /\ epc = "idle"
    /\ attempt = 0
    /\ apiAttempt = 0
    /\ eresults = <<>>
    /\ uncachedTexts = <<>>
    /\ uncachedIndices = <<>>
    /\ elog = NoLog
    /\ ecalls = 0
    /\ clears = 0

EmbedIdle ==
    /\ cache = EmptyCache
    /\ now = 0
    /\ embedConfig = [retryAttempts |-> 3, apiKey |-> TRUE]
    /\ eop = "none"
    /\ etexts = <<>>
    /\ epc = "idle"
    /\ attempt = 0
    /\ apiAttempt = 0
    /\ eresults = <<>>
    /\ uncachedTexts = <<>>
    /\ uncachedIndices = <<>>
    /\ elog = NoLog
    /\ ecalls = 0
    /\ clears = 0

\* embedQuery(t) up to its first await
EmbedQuery ==
    /\ epc \in {"idle", "done", "failed"}
    /\ ecalls < MaxEmbedCalls
    /\ \E t \in EmbedTexts :
          LET look == getFromCache(cache, generateCacheKey(t), now)
              sent == RequestIsSent(<<t>>, embedConfig)
              last == 1 >= AttemptCount(embedConfig.retryAttempts)
          IN  /\ etexts' = <<t>>
              /\ cache' = look.cache
              /\ IF Truthy(look.embedding)
                 THEN /\ eresults' = <<look.embedding>>
                      /\ epc' = "done"
                      /\ attempt' = 0
                      /\ apiAttempt' = 0
                      /\ elog' = [NoLog EXCEPT !.hit = TRUE, !.cacheAtCall = cache]
                 ELSE /\ eresults' = <<>>
                      /\ attempt' = 1
                      /\ apiAttempt' = IF sent THEN 1 ELSE 0
                      /\ epc' = IF sent THEN "request" ELSE IF last THEN "failed" ELSE "delay"
                      /\ elog' = [NoLog EXCEPT !.providerCalls = 1,
                                               !.apiCalls = IF sent THEN 1 ELSE 0,
                                               !.cacheAtCall = cache]
    /\ eop' = "embedQuery"
    /\ ecalls' = ecalls + 1
    /\ UNCHANGED <<now, embedConfig, uncachedTexts, uncachedIndices, clears>>
    /\ UNCHANGED notEmbedVars

\* embedWithRetry: the delay is over, embeddingModel.embedQuery is called
\* again and throws again before any request (no key, no valid text)
RetryAfterDelay ==
    /\ epc = "delay"
    /\ attempt' = attempt + 1
    /\ elog' = [elog EXCEPT !.providerCalls = @ + 1]
    /\ epc' = IF attempt + 1 >= AttemptCount(embedConfig.retryAttempts) THEN "failed" ELSE "delay"
    /\ UNCHANGED <<cache, now, embedConfig, eop, etexts, apiAttempt, eresults, uncachedTexts, uncachedIndices, ecalls, clears>>
    /\ UNCHANGED notEmbedVars

\* embedDocuments(ts) up to its first await
EmbedDocuments ==
    /\ epc \in {"idle", "done", "failed"}
    /\ ecalls < MaxEmbedCalls
    /\ \E ts \in SeqsUpTo(EmbedTexts, MaxBatchTexts) :
          LET checked == CheckCache(ts, 0, cache, now, [i \in 1..Len(ts) |-> Undefined],
                                    <<>>, <<>>)
              sent == RequestIsSent(checked.uncachedTexts, embedConfig)
          IN  /\ etexts' = ts
              /\ cache' = checked.cache
              /\ eresults' = checked.results
              /\ uncachedTexts' = checked.uncachedTexts
              /\ uncachedIndices' = checked.uncachedIndices
              /\ epc' = IF Len(checked.uncachedTexts) = 0 THEN "done"
                        ELSE IF sent THEN "request" ELSE "failed"
              /\ apiAttempt' = IF Len(checked.uncachedTexts) > 0 /\ sent THEN 1 ELSE 0
              /\ elog' = [NoLog EXCEPT
                            !.providerCalls = IF Len(checked.uncachedTexts) > 0 THEN 1 ELSE 0,
                            !.apiCalls = IF Len(checked.uncachedTexts) > 0 /\ sent THEN 1 ELSE 0,
                            !.hit = Len(checked.uncachedTexts) = 0,
                            !.cacheAtCall = cache]
    /\ attempt' = 0
    /\ eop' = "embedDocuments"
    /\ ecalls' = ecalls + 1
    /\ UNCHANGED <<now, embedConfig, clears>>
    /\ UNCHANGED notEmbedVars

\* makeAPIRequest resolves with the embeddings
ApiRequestSucceeds ==
    /\ epc = "request"
    /\ IF eop = "embedQuery"
       THEN LET embedding == ApiEmbeddings(etexts)[1]
            IN  /\ eresults' = <<embedding>>
                /\ cache' = setCache(cache, generateCacheKey(etexts[1]), embedding, now)
                /\ elog' = [elog EXCEPT !.stores = @ + 1]
       ELSE LET put == PutBack(0, eresults, cache, ApiEmbeddings(uncachedTexts),
                               uncachedTexts, uncachedIndices, now)
            IN  /\ eresults' = put.results
                /\ cache' = put.cache
                /\ elog' = [elog EXCEPT !.stores = @ + Len(uncachedIndices)]
    /\ epc' = "done"
    /\ UNCHANGED <<now, embedConfig, eop, etexts, attempt, apiAttempt, uncachedTexts, uncachedIndices, ecalls, clears>>
    /\ UNCHANGED notEmbedVars

\* makeAPIRequest throws (HTTP error, timeout, malformed response)
ApiRequestFails ==
    /\ epc = "request"
    /\ IF apiAttempt < maxRetries
       THEN /\ apiAttempt' = apiAttempt + 1
            /\ elog' = [elog EXCEPT !.apiCalls = @ + 1]
            /\ UNCHANGED <<epc, attempt>>
       ELSE IF eop = "embedQuery" /\ attempt < AttemptCount(embedConfig.retryAttempts)
       THEN /\ attempt' = attempt + 1
            /\ apiAttempt' = 1
            /\ elog' = [elog EXCEPT !.providerCalls = @ + 1, !.apiCalls = @ + 1]
            /\ UNCHANGED epc
       ELSE /\ epc' = "failed"
            /\ UNCHANGED <<attempt, apiAttempt, elog>>
    /\ UNCHANGED <<cache, now, embedConfig, eop, etexts, eresults, uncachedTexts, uncachedIndices, ecalls, clears>>
    /\ UNCHANGED notEmbedVars

\* clearCache()
ClearCache ==
    /\ clears < MaxClears
    /\ cache' = EmptyCache
    /\ clears' = clears + 1
    /\ elog' = [elog EXCEPT !.cleared = TRUE]
    /\ UNCHANGED <<now, embedConfig, eop, etexts, epc, attempt, apiAttempt, eresults, uncachedTexts, uncachedIndices, ecalls>>
    /\ UNCHANGED notEmbedVars

\* time passes
Tick ==
    /\ now < MaxTicks * TickMs
    /\ now' = now + TickMs
    /\ UNCHANGED <<cache, embedConfig, eop, etexts, epc, attempt, apiAttempt, eresults, uncachedTexts, uncachedIndices, elog, ecalls, clears>>
    /\ UNCHANGED notEmbedVars

EmbedNext ==
    \/ EmbedQuery
    \/ RetryAfterDelay
    \/ EmbedDocuments
    \/ ApiRequestSucceeds
    \/ ApiRequestFails
    \/ ClearCache
    \/ Tick

\* C8: embedDocuments(texts) returns a list as long as texts whose i-th
\* element is the vector of texts[i], for every texts and every cache state,
\* and every vector it computed is in the cache under the key of its text.
C8_BatchOrderPreserved ==
    (eop = "embedDocuments" /\ epc = "done") =>
        /\ Len(eresults) = Len(etexts)
        /\ \A i \in 1..Len(etexts) : eresults[i] = Embedding(etexts[i])
        /\ ~elog.cleared =>
              \A i \in 1..Len(uncachedTexts) :
                  /\ generateCacheKey(uncachedTexts[i]) \in DOMAIN cache
                  /\ cache[generateCacheKey(uncachedTexts[i])].embedding
                        = Embedding(uncachedTexts[i])

\* C9: with three attempts, embedQuery does not fail before the provider
\* has failed three times; when it succeeds after a miss, whatever the
\* failures before, it returns the provider's vector of the text, has
\* written the cache once, and the cache holds that vector under the key of
\* the text.
C9_RetryTransparent ==
    (eop = "embedQuery" /\ embedConfig.retryAttempts \in {0, 3}) =>
        /\ epc = "failed" => elog.providerCalls >= 3
        /\ (epc = "done" /\ ~elog.hit) =>
              /\ eresults = <<Embedding(etexts[1])>>
              /\ elog.stores = 1
              /\ ~elog.cleared =>
                    /\ generateCacheKey(etexts[1]) \in DOMAIN cache
                    /\ cache[generateCacheKey(etexts[1])].embedding = Embedding(etexts[1])

\* embedQuery returned after the provider had failed twice and then succeeded
C9_SucceededOnThirdAttempt ==
    /\ eop = "embedQuery"
    /\ epc = "done"
    /\ elog.providerCalls = 3
    /\ elog.apiCalls = 3 * maxRetries
    /\ elog.stores = 1
    /\ DOMAIN cache = {generateCacheKey(etexts[1])}

\* the cache as it was at the call, less the entry under the key of the text
WithoutOwnEntry ==
    [k \in DOMAIN elog.cacheAtCall \ {generateCacheKey(etexts[1])} |-> elog.cacheAtCall[k]]

\* C10 (as amended): embedQuery calls the provider at most retryAttempts
\* times (3 when none is configured); when every attempt has failed it has
\* failed after exactly that many calls, has written nothing to the cache,
\* and the cache is as it was at the call, or as it was less the entry
\* under the key of the text, and then that entry had expired; on a cache
\* hit the provider is not called.
C10_BoundedRetries ==
    eop = "embedQuery" =>
        LET count == IF embedConfig.retryAttempts # 0 THEN embedConfig.retryAttempts ELSE 3
            key == generateCacheKey(etexts[1])
        IN  /\ elog.providerCalls <= count
            /\ epc = "failed" =>
                  /\ elog.providerCalls = count
                  /\ elog.stores = 0
                  /\ ~elog.cleared =>
                        \/ cache = elog.cacheAtCall
                        \/ /\ cache = WithoutOwnEntry
                           /\ now - elog.cacheAtCall[key].timestamp >= elog.cacheAtCall[key].ttl
            /\ elog.hit => (elog.providerCalls = 0 /\ elog.apiCalls = 0)

\* C10 (as stated): when every attempt of embedQuery has failed the cache is
\* what it was when the call was made.
C10_CacheUnchangedOnFailure ==
    (eop = "embedQuery" /\ epc = "failed" /\ ~elog.cleared) => cache = elog.cacheAtCall

\* embedQuery has failed after all its attempts, for a text whose entry had
\* expired, while the entry of another text stayed
C10_FailedOnExpiredEntry ==
    /\ eop = "embedQuery"
    /\ epc = "failed"
    /\ ~elog.cleared
    /\ elog.apiCalls > 0
    /\ generateCacheKey(etexts[1]) \in DOMAIN elog.cacheAtCall
    /\ DOMAIN cache # {}

\* the entry under the key is younger than its time to live
Fresh(c, key, t) == key \in DOMAIN c /\ t - c[key].timestamp < c[key].ttl

\* the step is the first part of an embedQuery or embedDocuments call
IsCall == ecalls' = ecalls + 1
\* the step is the provider's answer to the call in flight
IsAnswer == epc = "request" /\ epc' = "done"

\* the texts of the call in flight that missed the cache
MissedTexts ==
    IF eop = "embedQuery" THEN {etexts[1]}
    ELSE {uncachedTexts[i] : i \in 1..Len(uncachedTexts)}

\* the i-th text of the call that the step begins is answered from the cache
ServedFromCache(i) ==
    IF eop' = "embedQuery" THEN elog'.hit ELSE eresults'[i] # Undefined

\* a step writes an entry only if it is the provider's answer to a call, the
\* entry is under the key of a text of the call that had missed the cache,
\* and it holds the provider's vector of such a text
CreatedOnMiss ==
    \A key \in DOMAIN cache' :
        (key \notin DOMAIN cache \/ cache'[key] # cache[key]) =>
            /\ IsAnswer
            /\ \E t \in MissedTexts :
                  /\ generateCacheKey(t) = key
                  /\ cache'[key].embedding = Embedding(t)
                  /\ cache'[key].timestamp = now

\* a call answers a text from the cache only with the vector of a fresh
\* entry; an entry that has reached its time to live is removed by the
\* lookup and the text is a miss
Lookup ==
    IsCall =>
        \A i \in 1..Len(etexts') :
            LET key == generateCacheKey(etexts'[i])
            IN  /\ ServedFromCache(i) =>
                      /\ Fresh(cache, key, now)
                      /\ eresults'[i] = cache[key].embedding
                /\ (key \in DOMAIN cache /\ ~Fresh(cache, key, now)) =>
                      /\ key \notin DOMAIN cache'
                      /\ ~ServedFromCache(i)

\* an entry leaves the cache only by clearCache or by a lookup under its key
\* at or past its time to live, and clearCache leaves no entry
Removal ==
    /\ clears' # clears => cache' = EmptyCache
    /\ \A key \in DOMAIN cache \ DOMAIN cache' :
          \/ clears' # clears
          \/ IsCall /\ ~Fresh(cache, key, now)
                    /\ \E i \in 1..Len(etexts') : generateCacheKey(etexts'[i]) = key

\* C27: an entry is written only after the provider has answered a call for
\* a text that missed the cache, and holds that text's vector; a lookup
\* answers from the cache only while the age of the entry is below its time
\* to live; the first lookup at or past it removes the entry and is a miss;
\* clearCache removes every entry, and nothing else removes one.
C27_CacheEntryLifecycle ==
    [][CreatedOnMiss /\ Lookup /\ Removal]_vars

\* C29: an embedQuery(t) that has returned, after whatever embedQuery,
\* embedDocuments and clearCache calls came before it, has returned the
\* provider's embedding of t itself, never the vector of another text (no
\* entry of the cache serves two different texts).
C29_CacheHitsSameText ==
    (eop = "embedQuery" /\ epc = "done") => eresults = <<Embedding(etexts[1])>>

(***************************************************************************)
(* DocumentProcessor.createChunks: one embedQuery per text chunk, awaited  *)
(* in turn.  An embedQuery resolves with the vector of the text, resolves  *)
(* with an empty vector, or throws.                                        *)
(***************************************************************************)
MaxTextChunks == 3    \* longest list that chunkText hands over

ProcessorTexts == {<<"a">>, <<"b">>, <<"c">>}
\* a vector of length 0
EmptyVector == <<"vec">>

\* the index (0-based) of the first text chunk from i on that the loop does
\* not skip, Len(ts) if there is none: if (chunkText.trim())
RECURSIVE NextChunkIndex(_, _)
NextChunkIndex(ts, i) ==
    IF i >= Len(ts) \/ ~IsBlank(ts[i + 1]) THEN i ELSE NextChunkIndex(ts, i + 1)

\* if (!embedding || embedding.length === 0) embedding = undefined
ValidatedEmbedding(embedding) ==
    IF embedding = Undefined \/ embedding = EmptyVector THEN Undefined ELSE embedding

ProcessorIdle ==
    /\ textChunks = <<>>
    /\ chunkIndex = 0
    /\ ppc = "idle"
    /\ createdChunks = <<>>
    /\ embedOutcomes = <<>>

\* createChunks(content, filename) up to its first await
CreateChunks ==
    /\ ppc = "idle"
    /\ \E ts \in SeqsUpTo(ProcessorTexts, MaxTextChunks) :
          LET first == NextChunkIndex(ts, 0)
          IN  /\ textChunks' = ts
              /\ chunkIndex' = first
              /\ ppc' = IF first >= Len(ts) THEN "done" ELSE "embedding"
              /\ embedOutcomes' = [i \in 1..Len(ts) |-> IF i <= first THEN "skipped" ELSE "none"]
    /\ createdChunks' = <<>>
    /\ UNCHANGED notProcessorVars

\* the rest of a turn of the loop once embedding is set, and the turns that
\* skip blank text chunks, up to the next await or the return
PushChunk(embedding, outcome) ==
    LET chunkText == textChunks[chunkIndex + 1]
        next == NextChunkIndex(textChunks, chunkIndex + 1)
    IN  /\ ppc = "embedding"
        /\ createdChunks' = Append(createdChunks, ChunkNode(chunkText, embedding))
        /\ embedOutcomes' = [i \in 1..Len(textChunks) |->
                               IF i = chunkIndex + 1 THEN outcome
                               ELSE IF i > chunkIndex + 1 /\ i <= next THEN "skipped"
                               ELSE embedOutcomes[i]]
        /\ chunkIndex' = next
        /\ ppc' = IF next >= Len(textChunks) THEN "done" ELSE "embedding"
        /\ UNCHANGED textChunks
        /\ UNCHANGED notProcessorVars

\* embeddingManager.embedQuery(chunkText) resolves with the vector
EmbedQueryResolves ==
    /\ ppc = "embedding"
    /\ PushChunk(ValidatedEmbedding(Embedding(textChunks[chunkIndex + 1])), "vector")

\* embeddingManager.embedQuery(chunkText) resolves with an empty vector
EmbedQueryResolvesEmpty ==
    /\ ppc = "embedding"
    /\ PushChunk(ValidatedEmbedding(EmptyVector), "empty")

\* embeddingManager.embedQuery(chunkText) throws: catch, embedding = undefined
EmbedQueryThrows ==
    /\ ppc = "embedding"
    /\ PushChunk(Undefined, "failed")

\* the writes createRelationBetweenChunks makes for the created chunks
ChunkWrites == createRelationBetweenChunks("d1", createdChunks, batchSize)

\* the store after the k-th and later createChunksAndRelationshipsOptimized
\* calls of the document
RECURSIVE WriteAll(_, _, _)
WriteAll(g, calls, k) ==
    IF k > Len(calls) THEN g
    ELSE LET withChunks == queryChunksAndPartOf(g, calls[k].batchData, 1)
             withFirst == queryFirstChunk(withChunks, "d1", calls[k].firstRelationships, 1)
         IN  WriteAll(queryNextChunk(withFirst, calls[k].nextRelationships, 1), calls, k + 1)

\* processDocument of the document that createChunks returned, no query failing
StoreDocument ==
    /\ ppc = "done"
    /\ graph' = WriteAll(createDocument(graph, "document", "", "d1", "general"), ChunkWrites, 1)
    /\ ppc' = "stored"
    /\ UNCHANGED <<textChunks, chunkIndex, createdChunks, embedOutcomes>>
    /\ UNCHANGED <<batchSize, maxWorkers, documents, batchStart, ipc, dpc, ingestions, lastWrite>>
    /\ UNCHANGED <<chunkerVars, searchVars, contextVars, embedVars, lexicalVars, vectorVars>>

ProcessorNext ==
    \/ CreateChunks
    \/ EmbedQueryResolves
    \/ EmbedQueryResolvesEmpty
    \/ EmbedQueryThrows
    \/ StoreDocument

\* the embedQuery of the i-th text chunk threw or gave an empty vector
EmbeddingLost(i) == embedOutcomes[i] \in {"failed", "empty"}

\* the Chunk node of the store that the i-th text chunk was written to
StoredChunk(i) ==
    CHOOSE c \in {graph.chunks[n] : n \in DOMAIN graph.chunks} : c.id = Hash(textChunks[i])

\* createChunks returns one chunk node per text chunk, in order, without a
\* vector exactly where the embedQuery threw or gave an empty vector
OneNodePerTextChunk ==
    /\ Len(createdChunks) = Len(textChunks)
    /\ \A i \in 1..Len(textChunks) :
          /\ createdChunks[i].text = textChunks[i]
          /\ embedOutcomes[i] \in {"failed", "empty", "vector"}
          /\ createdChunks[i].embedding =
                IF EmbeddingLost(i) THEN Undefined ELSE <<"vec", textChunks[i]>>

\* C20: whatever embedQuery calls fail, createChunks returns one chunk node
\* per text chunk of the document and the document is written; once it is
\* written, every text chunk is in the store, and it is stored without a
\* vector exactly if its embedQuery threw or gave an empty vector.
C20_EmbeddingFailureSkipsChunk ==
    /\ ppc \in {"idle", "embedding", "done", "stored"}
    /\ ppc \in {"done", "stored"} => OneNodePerTextChunk
    /\ ppc = "stored" =>
          \A i \in 1..Len(textChunks) :
             /\ HasChunk(graph, Hash(textChunks[i]))
             /\ (StoredChunk(i).embedding = Null) <=> EmbeddingLost(i)

(***************************************************************************)
(* UnifiedSearch.performTextSearch over a store of Chunk nodes.  The       *)
(* characters tell upper case from lower case.                             *)
(***************************************************************************)
MaxLexicalChunks == 2   \* most Chunk nodes of the store
MaxLexicalLen == 2      \* longest chunk text and longest query

LexicalAlphabet == {"a", "A", "b"}
LexicalTexts == SeqsUpTo(LexicalAlphabet, MaxLexicalLen) \ {<<>>}

\* toLower of a character and of a string
LowerChar(c) == IF c = "A" THEN "a" ELSE c
toLower(s) == [i \in 1..Len(s) |-> LowerChar(s[i])]

\* Cypher: s CONTAINS q (the characters are compared as they are)
Contains(s, q) == \E i \in 0..(Len(s) - Len(q)) : SubSeq(s, i + 1, i + Len(q)) = q
\* a match that compares the lower-cased strings
ContainsIgnoreCase(s, q) == Contains(toLower(s), toLower(q))
\* WHERE c.text CONTAINS $query
WhereClause(s, q) == Contains(s, q)

\* the stores: Chunk nodes with pairwise different texts, numbered in order
LexicalStores ==
    {[i \in 1..Len(ts) |-> [text |-> ts[i], id |-> <<"md5:">> \o ts[i], chunk_index |-> i]] :
        ts \in {t \in SeqsUpTo(LexicalTexts, MaxLexicalChunks) :
                    \A i, j \in 1..Len(t) : t[i] = t[j] => i = j}}

\* the row RETURNed for a Chunk node
LexicalRow(c, q) ==
    [content |-> c.text, source |-> c.id,
     score |-> Number(IF Contains(toLower(c.text), toLower(q)) THEN 800 ELSE 300)]

\* the rows of the query: MATCH, WHERE, RETURN, ORDER BY score DESC,
\* c.chunk_index ASC (the nodes of a store are in chunk_index order), LIMIT
LexicalQuery(st, q, limit) ==
    LET Matches(c) == WhereClause(c.text, q)
        matched == SelectSeq(st, Matches)
        rows == [i \in 1..Len(matched) |-> LexicalRow(matched[i], q)]
        High(r) == r.score.value = 800
        Low(r) == r.score.value # 800
        ordered == SelectSeq(rows, High) \o SelectSeq(rows, Low)
    IN  SubSeq(ordered, 1, Min(limit, Len(ordered)))

\* Math.floor(options.limit || query.limit || 10)
LexicalLimit(q) == IF q.limit # 0 THEN q.limit ELSE 10

LexicalIdle ==
    /\ textStore = <<>>
    /\ textQuery = NoQuery
    /\ tpc = "idle"
    /\ textResults = <<>>

\* performTextSearch(query, options) on a store, up to the await of the query
PerformTextSearch ==
    /\ tpc = "idle"
    /\ textStore' \in LexicalStores
    /\ textQuery' \in [query : LexicalTexts, limit : {0, 1}]
    /\ tpc' = "query"
    /\ UNCHANGED textResults
    /\ UNCHANGED notLexicalVars

\* neo4jManager.executeQuery resolves: filter, map, return
TextQueryResolves ==
    /\ tpc = "query"
    /\ textResults' =
          TextSearchResults(LexicalQuery(textStore, textQuery.query, LexicalLimit(textQuery)))
    /\ tpc' = "returned"
    /\ UNCHANGED <<textStore, textQuery>>
    /\ UNCHANGED notLexicalVars

\* neo4jManager.executeQuery throws: performTextSearch throws
TextQueryThrows ==
    /\ tpc = "query"
    /\ tpc' = "threw"
    /\ UNCHANGED <<textStore, textQuery, textResults>>
    /\ UNCHANGED notLexicalVars

LexicalNext ==
    \/ PerformTextSearch
    \/ TextQueryResolves
    \/ TextQueryThrows

\* the Chunk nodes whose lower-cased text contains the lower-cased query
CaseInsensitiveMatches ==
    {i \in 1..Len(textStore) : ContainsIgnoreCase(textStore[i].text, textQuery.query)}

\* C23: when the lexical query has been answered, performTextSearch has
\* returned; every result is a chunk whose lower-cased text contains the
\* lower-cased query, with the score 0.8 of an exact hit; every such chunk
\* is among the results unless the limit cut the list; and the list is
\* empty when no chunk matches.
C23_CaseInsensitiveMatch ==
    tpc = "returned" =>
        /\ \A k \in 1..Len(textResults) :
              \E i \in CaseInsensitiveMatches :
                 /\ textResults[k].content = textStore[i].text
                 /\ textResults[k].score = Number(800)
        /\ Len(textResults) = Min(LexicalLimit(textQuery), Cardinality(CaseInsensitiveMatches))
        /\ \A i \in CaseInsensitiveMatches :
              Len(textResults) < LexicalLimit(textQuery)
                  => \E k \in 1..Len(textResults) : textResults[k].content = textStore[i].text

(***************************************************************************)
(* VectorSearchService.search: the query is vectorized by the embedding    *)
(* model the service was constructed with, which getVectorSearchService    *)
(* takes from embeddingManager.getEmbeddingModel(), then the similar        *)
(* vectors are queried.                                                    *)
(***************************************************************************)
MaxSearches == 3      \* search calls followed

QueryTexts == {<<"a">>, <<"b">>, <<" ">>}

VectorIdle ==
    /\ vquery = <<>>
    /\ vpc = "idle"
    /\ queryVector = <<>>
    /\ modelAnswers = [q \in QueryTexts |-> 0]
    /\ vsearches = 0

\* search(query) up to its first await: this.embeddingModel.embedQuery(query),
\* which throws before any request without an API key or a valid text
VectorSearch ==
    /\ vpc \in {"idle", "returned", "threw"}
    /\ vsearches < MaxSearches
    /\ \E q \in QueryTexts :
          /\ vquery' = q
          /\ vpc' = IF RequestIsSent(<<q>>, embedConfig) THEN "embed" ELSE "threw"
    /\ queryVector' = <<>>
    /\ vsearches' = vsearches + 1
    /\ UNCHANGED modelAnswers
    /\ UNCHANGED notVectorVars

\* the provider answers: searchSimilarVectors(queryVector, options) is called
QueryVectorResolves ==
    /\ vpc = "embed"
    /\ queryVector' = Embedding(vquery)
    /\ modelAnswers' = [modelAnswers EXCEPT ![vquery] = @ + 1]
    /\ vpc' = "similar"
    /\ UNCHANGED <<vquery, vsearches>>
    /\ UNCHANGED notVectorVars

\* every request of callGeminiEmbeddingAPI has failed: search rethrows
QueryVectorThrows ==
    /\ vpc = "embed"
    /\ vpc' = "threw"
    /\ UNCHANGED <<vquery, queryVector, modelAnswers, vsearches>>
    /\ UNCHANGED notVectorVars

\* the query for the similar vectors is answered: search returns
SimilarVectorsResolve ==
    /\ vpc = "similar"
    /\ vpc' = "returned"
    /\ UNCHANGED <<vquery, queryVector, modelAnswers, vsearches>>
    /\ UNCHANGED notVectorVars

\* the query for the similar vectors fails: search rethrows
SimilarVectorsThrow ==
    /\ vpc = "similar"
    /\ vpc' = "threw"
    /\ UNCHANGED <<vquery, queryVector, modelAnswers, vsearches>>
    /\ UNCHANGED notVectorVars

VectorNext ==
    \/ VectorSearch
    \/ QueryVectorResolves
    \/ QueryVectorThrows
    \/ SimilarVectorsResolve
    \/ SimilarVectorsThrow

\* C30: the vector search takes the query vector from the embedding cache:
\* no time passing, the provider computes the embedding of a query text for
\* at most one search, and a search that has returned has left a live cache
\* entry for its query.
C30_QueryThroughCache ==
    /\ \A q \in QueryTexts : modelAnswers[q] <= 1
    /\ vpc = "returned" => Fresh(cache, generateCacheKey(vquery), now)

(***************************************************************************)
(* Specifications, one per component.                                      *)
(***************************************************************************)
InitChunker == ChunkerInit /\ GraphIdle /\ SearchInit /\ ContextIdle /\ EmbedIdle /\ ProcessorIdle /\ LexicalIdle /\ VectorIdle
SpecChunker == InitChunker /\ [][ChunkerNext]_vars

InitGraph == GraphInit /\ ChunkerIdle /\ SearchInit /\ ContextIdle /\ EmbedIdle /\ ProcessorIdle /\ LexicalIdle /\ VectorIdle
SpecGraph == InitGraph /\ [][GraphNext]_vars

InitSearch == SearchInit /\ ChunkerIdle /\ GraphIdle /\ ContextIdle /\ EmbedIdle /\ ProcessorIdle /\ LexicalIdle /\ VectorIdle
SpecSearch == InitSearch /\ [][SearchNext]_vars

InitEmbed == EmbedInit /\ ChunkerIdle /\ GraphIdle /\ SearchInit /\ ContextIdle /\ ProcessorIdle /\ LexicalIdle /\ VectorIdle
SpecEmbed == InitEmbed /\ [][EmbedNext]_vars

InitIngestion == IngestionInit /\ ChunkerIdle /\ SearchInit /\ ContextIdle /\ EmbedIdle /\ ProcessorIdle /\ LexicalIdle /\ VectorIdle
SpecIngestion == InitIngestion /\ [][IngestionNext]_vars

InitProcessor == ProcessorIdle /\ ChunkerIdle /\ GraphIdle /\ SearchInit /\ ContextIdle /\ EmbedIdle /\ LexicalIdle /\ VectorIdle
SpecProcessor == InitProcessor /\ [][ProcessorNext]_vars

InitLexical == LexicalIdle /\ ChunkerIdle /\ GraphIdle /\ SearchInit /\ ContextIdle /\ EmbedIdle /\ ProcessorIdle /\ VectorIdle
SpecLexical == InitLexical /\ [][LexicalNext]_vars

InitSlack == SlackInit /\ GraphIdle /\ SearchInit /\ ContextIdle /\ EmbedIdle /\ ProcessorIdle /\ LexicalIdle /\ VectorIdle
SpecSlack == InitSlack /\ [][ChunkerNext]_vars

InitVector == VectorIdle /\ EmbedInit /\ ChunkerIdle /\ GraphIdle /\ SearchInit /\ ContextIdle /\ ProcessorIdle /\ LexicalIdle
SpecVector == InitVector /\ [][VectorNext]_vars

InitContext == ContextInit /\ SearchInit /\ ChunkerIdle /\ GraphIdle /\ EmbedIdle /\ ProcessorIdle /\ LexicalIdle /\ VectorIdle
SpecContext == InitContext /\ [][ContextNext]_vars

====
